---- MODULE Spec2Model ----
(***************************************************************************)
(* A model of the newsletter link pipeline of filter-burgers:              *)
(*   src/src/classify.ts   classify(url)                                   *)
(*   src/src/parse.ts      parseHtml, batchParseHtml, the extractors and   *)
(*                         validateParsedContent                           *)
(*   src/src/summarize.js  summarize, the two providers, HybridProvider;   *)
(*                         GmailApiClient: authenticate,                   *)
(*                         rateLimitedRequest, extractUrlsFromEmail        *)
(*   src/supabase/functions/debug_env/index.ts   the edge function's       *)
(*                         copy of classify                                *)
(*                                                                         *)
(* Strings the code inspects character by character (URLs, class           *)
(* attribute values) are sequences of one-character strings.  An HTML      *)
(* document is a sequence of lexical tokens (tags, text runs, entities);   *)
(* every regular expression of parse.ts is evaluated over that sequence    *)
(* with the leftmost / lazy / greedy choices the regex engine makes.       *)
(***************************************************************************)
EXTENDS Integers, Sequences, FiniteSets, TLC

VARIABLES
    u,          \* classify: the url argument (sequence of characters)
    linkType,   \* classify: the returned LinkType, "none" before the call
    edgeType,   \* the edge function's classify: its returned tag, "none" before the call
    inHtml,     \* parseHtml: the html argument (token sequence)
    inUrl,      \* parseHtml: the url argument, <<>> when absent or empty
    now,        \* the clock new Date() reads
    outcome,    \* "none" before the call, then "returned" or "raised"
    result,     \* parseHtml: the ParsedContent returned
    ran,        \* parseHtml: the extractors the call ran, in order
    htmlDocuments,  \* batchParseHtml: the argument, a sequence of [html, url]
    results,    \* batchParseHtml: the elements map has produced so far
    parsedContent,  \* validateParsedContent: the argument
    validation, \* validateParsedContent: what it returned, score -1 before the call
    env,        \* summarize: process.env, which API keys are configured
    sInput,     \* summarize: the input argument [title, summary, content]
    sPc,        \* summarize: where the call is: "start", "loop" or "done"
    sCalls,     \* summarize: the provider.summarize calls made so far, in order
    sResult,    \* summarize: the value the promise resolved with
    history,    \* the parseHtml calls a caller has made one after another, each
                \* [html, url, result]
    accessToken,     \* GmailApiClient: the cached token, NoToken for null
    tokenExpiresAt,  \* GmailApiClient: when the cached token stops being used
    lastRequestTime, \* GmailApiClient: the clock at the last pass of the rate limiter
    reqs,       \* the rateLimitedRequest calls: where each is, its timer, its result
    trace,      \* the requests sent to the Gmail API and its answers, in order
    authLog,    \* the completed authenticate calls, in order
    email,      \* extractUrlsFromEmail: the argument, [body]
    extracted   \* extractUrlsFromEmail: what it returned, [done, urls]

cvars == <<u, linkType, edgeType>>
pvars == <<inHtml, inUrl, now, outcome, result, ran>>
bvars == <<htmlDocuments, results>>
vvars == <<parsedContent, validation>>
svars == <<env, sInput, sPc, sCalls, sResult>>
hvars == <<history>>
gvars == <<accessToken, tokenExpiresAt, lastRequestTime, reqs, trace, authLog>>
evars == <<email, extracted>>
vars  == <<u, linkType, edgeType, inHtml, inUrl, now, outcome, result, ran, htmlDocuments, results,
           parsedContent, validation, env, sInput, sPc, sCalls, sResult,
           history, accessToken, tokenExpiresAt, lastRequestTime, reqs, trace, authLog,
           email, extracted>>

-----------------------------------------------------------------------------
(* Character sequences                                                     *)

\* String.prototype.includes
Includes(s, pat) ==
    \E i \in 1..(Len(s) - Len(pat) + 1) : SubSeq(s, i, i + Len(pat) - 1) = pat

\* String.prototype.endsWith
EndsWith(s, pat) ==
    /\ Len(s) >= Len(pat)
    /\ SubSeq(s, Len(s) - Len(pat) + 1, Len(s)) = pat

\* String.prototype.toLowerCase, on the characters the inputs use
LowerChar(c) ==
    CASE c = "P" -> "p"
      [] c = "D" -> "d"
      [] c = "F" -> "f"
      [] c = "A" -> "a"
      [] OTHER -> c

toLowerCase(s) == [i \in 1..Len(s) |-> LowerChar(s[i])]

\* const x = v; F(x): the value is computed once and then named
With(v, F(_)) == CHOOSE y \in {F(x) : x \in {v}} : TRUE

RECURSIVE Concat(_)
Concat(ss) == IF ss = <<>> THEN <<>> ELSE Head(ss) \o Concat(Tail(ss))

-----------------------------------------------------------------------------
(* HTML as a token sequence                                                *)
(*                                                                         *)
(* Every token is a record of one shape:                                   *)
(*   k   "w"     a run of n words of l plain characters each, single       *)
(*               spaces between them; nm names the text, av holds the      *)
(*               characters when the text is a class-name capture          *)
(*       "sp"    n whitespace characters                                   *)
(*       "ent"   an entity &...; of l characters, nm = "nbsp" for &nbsp;   *)
(*       "sep"   one of the characters | - (nm), as the title regex reads  *)
(*       "json"  the text of a script body, js the value JSON.parse gives  *)
(*       "open"  <nm at="...">, the value is av (class) or txt (others)    *)
(*       "close" </nm>                                                     *)
(*       "meta"  <meta name="nm" content="txt">, at = "A", or with the     *)
(*               content attribute first, at = "B"                         *)
(*       "link"  <link rel="nm" href="txt">, at = "A", href first "B"      *)
(*       "null"  the value null of a nullable field                        *)

NoJs == [t |-> "none", author |-> "absent", str |-> <<>>, date |-> <<>>]

Tok(k, nm, at, av, n, l, txt, js) ==
    [k |-> k, nm |-> nm, at |-> at, av |-> av, n |-> n, l |-> l, txt |-> txt, js |-> js]

Wd(id, n, l)          == Tok("w", id, "", <<>>, n, l, <<>>, NoJs)
WdChars(cs)           == Tok("w", "chars", "", cs, 1, Len(cs), <<>>, NoJs)
Sp(n)                 == Tok("sp", "", "", <<>>, n, 0, <<>>, NoJs)
Ent(l)                == Tok("ent", "amp", "", <<>>, 0, l, <<>>, NoJs)
Nbsp                  == Tok("ent", "nbsp", "", <<>>, 0, 6, <<>>, NoJs)
Sep(c)                == Tok("sep", c, "", <<>>, 0, 1, <<>>, NoJs)
Json(l, js)           == Tok("json", "", "", <<>>, 0, l, <<>>, js)
Open(nm)              == Tok("open", nm, "", <<>>, 0, 0, <<>>, NoJs)
OpenClass(nm, cs)     == Tok("open", nm, "class", cs, 0, 0, <<>>, NoJs)
OpenAttr(nm, at, txt) == Tok("open", nm, at, <<>>, 0, 0, txt, NoJs)
Close(nm)             == Tok("close", nm, "", <<>>, 0, 0, <<>>, NoJs)
Meta(nm, at, txt)     == Tok("meta", nm, at, <<>>, 0, 0, txt, NoJs)
Link(nm, at, txt)     == Tok("link", nm, at, <<>>, 0, 0, txt, NoJs)
Null                  == <<Tok("null", "", "", <<>>, 0, 0, <<>>, NoJs)>>

IsTag(t) == t.k \in {"open", "close", "meta", "link"}

\* tag names compared by the /i regexes
LowerName(nm) == IF nm = "HTML" THEN "html" ELSE nm

NameLen(nm) ==
    CASE nm \in {"p", "a"} -> 1
      [] nm \in {"li", "id", "h1", "h2", "h3", "h4", "h5", "h6"} -> 2
      [] nm \in {"div", "nav", "rel"} -> 3
      [] nm \in {"html", "HTML", "main", "span", "time", "lang", "type"} -> 4
      [] nm \in {"title", "aside", "class"} -> 5
      [] nm \in {"script", "header", "footer", "author", "og:url"} -> 6
      [] nm \in {"article", "section"} -> 7
      [] nm \in {"og:title"} -> 8
      [] nm \in {"canonical"} -> 9
      [] nm \in {"blockquote", "stylesheet"} -> 10
      [] nm \in {"twitter:title"} -> 13
      [] OTHER -> 11

RECURSIVE HtmlLen(_)
\* String.prototype.length of the text the tokens stand for
TokLen(t) ==
    CASE t.k = "w"     -> t.n * t.l + (t.n - 1)
      [] t.k = "sp"    -> t.n
      [] t.k \in {"ent", "sep", "json"} -> t.l
      [] t.k = "open"  -> 2 + NameLen(t.nm)
                          + (IF t.at = "" THEN 0
                             ELSE 4 + NameLen(t.at) + Len(t.av) + HtmlLen(t.txt))
      [] t.k = "close" -> 3 + NameLen(t.nm)
      [] t.k = "meta"  -> 25 + NameLen(t.nm) + HtmlLen(t.txt)
      [] t.k = "link"  -> 20 + NameLen(t.nm) + HtmlLen(t.txt)
      [] OTHER -> 0
HtmlLen(h) == IF h = <<>> THEN 0 ELSE TokLen(Head(h)) + HtmlLen(Tail(h))

Min(S) == CHOOSE x \in S : \A y \in S : x <= y
Max(S) == CHOOSE x \in S : \A y \in S : x >= y

-----------------------------------------------------------------------------
(* parse.ts: cleanText                                                     *)

IsSpace(t) == t.k = "sp"

RECURSIVE Collapse(_)
\* .replace(/\s+/g, ' ')
Collapse(h) ==
    IF h = <<>> THEN <<>>
    ELSE IF IsSpace(Head(h))
         THEN LET r == Collapse(Tail(h)) IN
              IF r # <<>> /\ IsSpace(Head(r)) THEN r ELSE <<Sp(1)>> \o r
         ELSE <<Head(h)>> \o Collapse(Tail(h))

\* String.prototype.trim
Trim(h) ==
    LET keep == {i \in 1..Len(h) : ~IsSpace(h[i])} IN
    IF keep = {} THEN <<>> ELSE SubSeq(h, Min(keep), Max(keep))

cleanText(text) ==
    LET noTags   == SelectSeq(text, LAMBDA t : ~IsTag(t))          \* /<[^>]*>/g
        noEnts   == [i \in 1..Len(noTags) |->                      \* &nbsp; and &...;
                       IF noTags[i].k = "ent" THEN Sp(1) ELSE noTags[i]]
    IN  Trim(Collapse(noEnts))

\* the tokens split(/\s+/).filter(Boolean) yields: the maximal runs without whitespace
WordCount(h) ==
    LET starts == {i \in 1..Len(h) : ~IsSpace(h[i]) /\ (i = 1 \/ IsSpace(h[i - 1]))}
        RECURSIVE Sum(_)
        Sum(S) == IF S = {} THEN 0
                  ELSE LET i == CHOOSE x \in S : TRUE IN
                       (IF h[i].k = "w" THEN h[i].n - 1 ELSE 0) + Sum(S \ {i})
    IN  Cardinality(starts) + Sum({i \in 1..Len(h) : h[i].k = "w"})

-----------------------------------------------------------------------------
(* parse.ts: regular expressions over the token sequence                   *)

\* the index of the first token at or after `from` that satisfies P, else 0
FirstIdx(h, P(_), from) ==
    LET S == {i \in from..Len(h) : P(h[i])} IN IF S = {} THEN 0 ELSE Min(S)

IsOpen(t, nm)  == t.k = "open" /\ LowerName(t.nm) = nm
IsClose(t, nm) == t.k = "close" /\ LowerName(t.nm) = nm
AnyClose(t)    == t.k = "close"

\* <OPEN>([\s\S]*?)CLOSE : the leftmost opening token and the first closing
\* token after it; i = 0 when the regex does not match
Element(h, IsOpening(_), IsClosing(_)) ==
    LET i == FirstIdx(h, IsOpening, 1)
        j == IF i = 0 THEN 0 ELSE FirstIdx(h, IsClosing, i + 1)
    IN  IF j = 0 THEN [i |-> 0, j |-> 0, inner |-> <<>>]
        ELSE [i |-> i, j |-> j, inner |-> SubSeq(h, i + 1, j - 1)]

\* class="[^"]*(a1|a2|...)[^"]*" : the greedy [^"]* makes the engine take the
\* rightmost position where an alternative matches, and there the first
\* alternative in the order written; <<>> when none matches
ClassCapture(cs, alts) ==
    LET At(i, a) == i + Len(a) - 1 <= Len(cs) /\ SubSeq(cs, i, i + Len(a) - 1) = a
        pos == {i \in 1..Len(cs) : \E k \in 1..Len(alts) : At(i, alts[k])}
    IN  IF pos = {} THEN <<>>
        ELSE LET i == Max(pos)
                 k == Min({k \in 1..Len(alts) : At(i, alts[k])})
             IN  alts[k]

HasClass(t, alts) == t.k = "open" /\ t.at = "class" /\ ClassCapture(t.av, alts) # <<>>

(* extractMetaTag: regexA (name before content) over the whole document
   first, then regexB; the content must be non-empty ([^"']+) *)
extractMetaTag(name, html) ==
    LET a == FirstIdx(html, LAMBDA t : t.k = "meta" /\ t.nm = name /\ t.at = "A"
                                       /\ t.txt # <<>>, 1)
        b == FirstIdx(html, LAMBDA t : t.k = "meta" /\ t.nm = name /\ t.at = "B"
                                       /\ t.txt # <<>>, 1)
    IN  IF a # 0 THEN cleanText(html[a].txt)
        ELSE IF b # 0 THEN cleanText(html[b].txt)
        ELSE <<>>

LdJson == <<Wd("application/ld+json", 1, 19)>>
IsLdScript(t) == IsOpen(t, "script") /\ t.at = "type" /\ t.txt = LdJson

\* JSON.parse of a script body: whitespace around one JSON text
JsonParse(body) ==
    LET b == SelectSeq(body, LAMBDA t : ~IsSpace(t)) IN
    IF Len(b) = 1 /\ b[1].k = "json" /\ b[1].js.t # "malformed"
    THEN [ok |-> TRUE, v |-> b[1].js]
    ELSE [ok |-> FALSE, v |-> NoJs]

RECURSIVE JsonLDFrom_StopAtMalformed(_, _)
\* the loop ending at the first block JSON.parse rejects
JsonLDFrom_StopAtMalformed(html, from) ==
    LET i == FirstIdx(html, IsLdScript, from)
        j == IF i = 0 THEN 0 ELSE FirstIdx(html, LAMBDA t : IsClose(t, "script"), i + 1)
    IN  IF j = 0 THEN <<>>
        ELSE LET parsed == JsonParse(SubSeq(html, i + 1, j - 1)) IN
             IF parsed.ok THEN <<parsed.v>> \o JsonLDFrom_StopAtMalformed(html, j + 1)
             ELSE <<>>

RECURSIVE JsonLDFrom(_, _)
\* while ((match = regex.exec(html)) !== null) { try { push(JSON.parse(match[1])) } catch {} }
JsonLDFrom(html, from) ==
    LET i == FirstIdx(html, IsLdScript, from)
        j == IF i = 0 THEN 0 ELSE FirstIdx(html, LAMBDA t : IsClose(t, "script"), i + 1)
    IN  IF j = 0 THEN <<>>
        ELSE LET parsed == JsonParse(SubSeq(html, i + 1, j - 1)) IN
             (IF parsed.ok THEN <<parsed.v>> ELSE <<>>) \o JsonLDFrom(html, j + 1)

\* jsonLDArray kept at module level: the blocks of earlier calls stay in it
extractJsonLD_SharedArray(html) ==
    LET RECURSIVE Earlier(_)
        Earlier(i) == IF i > Len(history) THEN <<>>
                      ELSE JsonLDFrom(history[i].html, 1) \o Earlier(i + 1)
    IN  Earlier(1) \o JsonLDFrom(html, 1)

\* const jsonLDArray = []; the regex object is created by the call as well
extractJsonLD(html) == JsonLDFrom(html, 1)

-----------------------------------------------------------------------------
(* parse.ts: extractMainContent                                            *)

Unwanted == {"script", "style", "nav", "header", "footer", "aside"}

RECURSIVE StripFrom(_, _)
\* html.replace(unwantedRegex, ''): each block from an opening tag to the
\* first closing tag of the same name is dropped
StripFrom(h, i) ==
    IF i > Len(h) THEN <<>>
    ELSE LET nm == LowerName(h[i].nm)
             j  == IF h[i].k = "open" /\ nm \in Unwanted
                   THEN FirstIdx(h, LAMBDA t : IsClose(t, nm), i + 1) ELSE 0
         IN  IF j # 0 THEN StripFrom(h, j + 1)
             ELSE <<h[i]>> \o StripFrom(h, i + 1)

C_wpblock        == <<"w", "p", "-", "b", "l", "o", "c", "k", "-", "p", "o", "s", "t",
                      "-", "c", "o", "n", "t", "e", "n", "t">>
C_entrycontent   == <<"e", "n", "t", "r", "y", "-", "c", "o", "n", "t", "e", "n", "t">>
C_postcontent    == <<"p", "o", "s", "t", "-", "c", "o", "n", "t", "e", "n", "t">>
C_articlecontent == <<"a", "r", "t", "i", "c", "l", "e", "-", "c", "o", "n", "t", "e", "n", "t">>
C_content        == <<"c", "o", "n", "t", "e", "n", "t">>
C_post           == <<"p", "o", "s", "t">>
C_article        == <<"a", "r", "t", "i", "c", "l", "e">>

NamedWrapperClasses == <<C_wpblock, C_entrycontent, C_postcontent, C_articlecontent>>
DivWrapperClasses   == <<C_content, C_post, C_article>>

\* match[1] of each of the four contentWrappers regexes, <<>> when the regex
\* does not match.  In the two class regexes group 1 is the class-name
\* alternative; the inner HTML is group 2, which the loop does not read.
WrapperGroup1(h, w) ==
    CASE w = 1 -> Element(h, LAMBDA t : IsOpen(t, "article"),
                             LAMBDA t : IsClose(t, "article")).inner
      [] w = 2 -> Element(h, LAMBDA t : IsOpen(t, "main"),
                             LAMBDA t : IsClose(t, "main")).inner
      [] w = 3 -> LET m == Element(h, LAMBDA t : HasClass(t, NamedWrapperClasses), AnyClose)
                  IN  IF m.i = 0 THEN <<>>
                      ELSE <<WdChars(ClassCapture(h[m.i].av, NamedWrapperClasses))>>
      [] w = 4 -> LET m == Element(h, LAMBDA t : IsOpen(t, "div")
                                                 /\ HasClass(t, DivWrapperClasses),
                                      LAMBDA t : IsClose(t, "div"))
                  IN  IF m.i = 0 THEN <<>>
                      ELSE <<WdChars(ClassCapture(h[m.i].av, DivWrapperClasses))>>

RECURSIVE WrapperLoop(_, _, _)
\* for (const regex of contentWrappers) ... keeps a strictly longer match[1]
WrapperLoop(h, w, bodyHtml) ==
    IF w > 4 THEN bodyHtml
    ELSE LET g == WrapperGroup1(h, w) IN
         WrapperLoop(h, w + 1,
                     IF g # <<>> /\ HtmlLen(g) > HtmlLen(bodyHtml) THEN g ELSE bodyHtml)

SelectBody(cleanedHtml) ==
    LET bodyHtml == WrapperLoop(cleanedHtml, 1, <<>>) IN
    IF bodyHtml = <<>> THEN cleanedHtml ELSE bodyHtml

ParaNames == {"p", "li", "h1", "h2", "h3", "h4", "h5", "h6", "blockquote"}

\* the name group 1 of paragraphRegex captures at an opening tag, "" when
\* the tag does not start with one; <li[^>]*> also matches a <link ...> tag
ParaName(t) ==
    IF t.k = "open" /\ LowerName(t.nm) \in ParaNames THEN LowerName(t.nm)
    ELSE IF t.k = "link" THEN "li"
    ELSE ""

RECURSIVE ParaFrom(_, _)
\* the successive matches of paragraphRegex.exec: match[2] of each
ParaFrom(body, from) ==
    LET starts == {i \in from..Len(body) :
                     /\ ParaName(body[i]) # ""
                     /\ \E j \in (i + 1)..Len(body) : IsClose(body[j], ParaName(body[i]))}
    IN  IF starts = {} THEN <<>>
        ELSE LET i == Min(starts)
                 j == FirstIdx(body, LAMBDA t : IsClose(t, ParaName(body[i])), i + 1)
             IN  <<SubSeq(body, i + 1, j - 1)>> \o ParaFrom(body, j + 1)

MinParagraphLen == 40

\* the length test with >= instead of >
KeepPart_AtLeast(cleanedText) == HtmlLen(cleanedText) >= MinParagraphLen

\* cleanedText.length > 40
KeepPart(cleanedText) == HtmlLen(cleanedText) > MinParagraphLen

RECURSIVE Join(_)
\* contentParts.join('\n\n')
Join(parts) ==
    IF parts = <<>> THEN <<>>
    ELSE IF Len(parts) = 1 THEN parts[1]
    ELSE parts[1] \o <<Sp(2)>> \o Join(Tail(parts))

ContentParts(bodyHtml) ==
    LET frags   == ParaFrom(bodyHtml, 1)
        cleaned == [i \in 1..Len(frags) |-> cleanText(frags[i])]
    IN  SelectSeq(cleaned, KeepPart)

extractMainContent(html) ==
    With(StripFrom(html, 1), LAMBDA cleanedHtml :
    With(SelectBody(cleanedHtml), LAMBDA bodyHtml :
    With(ContentParts(bodyHtml), LAMBDA contentParts : Join(contentParts))))

-----------------------------------------------------------------------------
(* parse.ts: the field extractors                                          *)

\* what a call does: return v, or throw; isError: the thrown value is an Error
Ret(v)     == [thrown |-> FALSE, v |-> v, isError |-> FALSE, msg |-> ""]
Throw(msg) == [thrown |-> TRUE, v |-> <<>>, isError |-> TRUE, msg |-> msg]

extractSourceUrl(html, providedUrl) ==
    LET ogUrl == extractMetaTag("og:url", html)
        canon == FirstIdx(html, LAMBDA t : t.k = "link" /\ t.nm = "canonical"
                                           /\ t.at = "A" /\ t.txt # <<>>, 1)
    IN  IF providedUrl # <<>> THEN providedUrl
        ELSE IF ogUrl # <<>> THEN ogUrl
        ELSE IF canon # 0 THEN html[canon].txt
        ELSE <<>>

\* .replace(/\s*[|\-—]\s*[^|]+$/, '').trim() on a cleaned title: the match
\* starts at the first separator that is followed, up to the end of the
\* string, by at least one character and by no '|'
StripSiteName(title) ==
    LET ok == {i \in 1..Len(title) :
                 /\ title[i].k = "sep"
                 /\ i < Len(title)
                 /\ \A j \in (i + 1)..Len(title) :
                       ~(title[j].k = "sep" /\ title[j].nm = "|")}
    IN  IF ok = {} THEN title ELSE Trim(SubSeq(title, 1, Min(ok) - 1))

\* extractTitle with the first <h1> tried before the meta tags
extractTitle_H1First(html) ==
    LET og == extractMetaTag("og:title", html)
        tw == extractMetaTag("twitter:title", html)
        h1Match == Element(html, LAMBDA t : IsOpen(t, "h1"), LAMBDA t : IsClose(t, "h1"))
        h1 == cleanText(h1Match.inner)
    IN  IF h1 # <<>> THEN h1
        ELSE IF og # <<>> THEN og
        ELSE IF tw # <<>> THEN tw
        ELSE <<>>

extractTitle(html) ==
    LET og == extractMetaTag("og:title", html)
        tw == extractMetaTag("twitter:title", html)
        h1Match == Element(html, LAMBDA t : IsOpen(t, "h1"), LAMBDA t : IsClose(t, "h1"))
        h1 == cleanText(h1Match.inner)
        titleMatch == Element(html, LAMBDA t : IsOpen(t, "title"),
                                    LAMBDA t : IsClose(t, "title"))
        tt == StripSiteName(cleanText(titleMatch.inner))
    IN  IF og # <<>> THEN og
        ELSE IF tw # <<>> THEN tw
        ELSE IF h1Match.inner # <<>> /\ h1 # <<>> THEN h1
        ELSE IF titleMatch.inner # <<>> /\ tt # <<>> THEN tt
        ELSE <<>>

C_author == <<"a", "u", "t", "h", "o", "r">>
C_byline == <<"b", "y", "l", "i", "n", "e">>
C_writer == <<"w", "r", "i", "t", "e", "r">>
AuthorClasses == <<C_author, C_byline, C_writer>>

MaxAuthorLen == 100

RECURSIVE AuthorFromJsonLD(_)
\* the for loop over jsonLDArray in extractAuthor: reading .author of null throws
AuthorFromJsonLD(arr) ==
    IF arr = <<>> THEN Ret(Null)
    ELSE LET jsonLD == Head(arr) IN
         IF jsonLD.t = "null"
         THEN Throw("Cannot read properties of null (reading 'author')")
         ELSE IF jsonLD.t = "object" /\ jsonLD.author = "string" /\ jsonLD.str # <<>>
         THEN Ret(jsonLD.str)
         ELSE IF jsonLD.t = "object" /\ jsonLD.author = "named" /\ jsonLD.str # <<>>
         THEN Ret(jsonLD.str)
         ELSE AuthorFromJsonLD(Tail(arr))

extractAuthor(html) ==
    LET m1 == extractMetaTag("author", html)
        m2 == extractMetaTag("article:author", html)
        m3 == extractMetaTag("twitter:creator", html)
        authorLinkMatch == Element(html, LAMBDA t : t.k = "open" /\ t.at = "rel"
                                                    /\ t.av = C_author, AnyClose)
        linkAuthor == cleanText(authorLinkMatch.inner)
        fromLD == AuthorFromJsonLD(extractJsonLD(html))
        authorClassMatch == Element(html, LAMBDA t : HasClass(t, AuthorClasses), AnyClose)
        classAuthor == cleanText(authorClassMatch.inner)
    IN  IF m1 # <<>> THEN Ret(m1)
        ELSE IF m2 # <<>> THEN Ret(m2)
        ELSE IF m3 # <<>> THEN Ret(m3)
        ELSE IF linkAuthor # <<>> THEN Ret(linkAuthor)
        ELSE IF fromLD.thrown \/ fromLD.v # Null THEN fromLD
        ELSE IF classAuthor # <<>> /\ HtmlLen(classAuthor) < MaxAuthorLen THEN Ret(classAuthor)
        ELSE Ret(Null)

RECURSIVE DateFromJsonLD(_)
\* the for loop over jsonLDArray in extractPublishDate
DateFromJsonLD(arr) ==
    IF arr = <<>> THEN Ret(Null)
    ELSE LET jsonLD == Head(arr) IN
         IF jsonLD.t = "null"
         THEN Throw("Cannot read properties of null (reading 'datePublished')")
         ELSE IF jsonLD.t = "object" /\ jsonLD.date # <<>> THEN Ret(jsonLD.date)
         ELSE DateFromJsonLD(Tail(arr))

extractPublishDate(html) ==
    LET m1 == extractMetaTag("article:published_time", html)
        m2 == extractMetaTag("pubdate", html)
        m3 == extractMetaTag("date", html)
        timeMatch == FirstIdx(html, LAMBDA t : IsOpen(t, "time") /\ t.at = "datetime"
                                               /\ t.txt # <<>>, 1)
    IN  IF m1 # <<>> THEN Ret(m1)
        ELSE IF m2 # <<>> THEN Ret(m2)
        ELSE IF m3 # <<>> THEN Ret(m3)
        ELSE IF timeMatch # 0 THEN Ret(html[timeMatch].txt)
        ELSE DateFromJsonLD(extractJsonLD(html))

C_speakable == <<"s", "p", "e", "a", "k", "a", "b", "l", "e", "-", "s", "u", "m", "m", "a", "r", "y">>
C_lead      == <<"l", "e", "a", "d">>
C_summary   == <<"s", "u", "m", "m", "a", "r", "y">>
C_excerpt   == <<"e", "x", "c", "e", "r", "p", "t">>
C_abstract  == <<"a", "b", "s", "t", "r", "a", "c", "t">>
SummaryNames == {C_speakable, C_lead, C_summary, C_excerpt, C_abstract}

StartsWith(cs, a) == Len(cs) >= Len(a) /\ SubSeq(cs, 1, Len(a)) = a

MinSummaryLen == 50
MaxSummaryLen == 300

\* the length test with >= 50 in place of > 50
SummaryFits_AtLeast(firstPara) ==
    HtmlLen(firstPara) >= MinSummaryLen /\ HtmlLen(firstPara) < MaxSummaryLen

\* firstPara.length > 50 && firstPara.length < 300
SummaryFits(firstPara) ==
    HtmlLen(firstPara) > MinSummaryLen /\ HtmlLen(firstPara) < MaxSummaryLen

extractSummary(html) ==
    LET m1 == extractMetaTag("description", html)
        m2 == extractMetaTag("og:description", html)
        m3 == extractMetaTag("twitter:description", html)
        summaryElementMatch ==
            Element(html, LAMBDA t : /\ t.k = "open" /\ t.at \in {"id", "class"}
                                     /\ \E a \in SummaryNames : StartsWith(t.av, a), AnyClose)
        el == cleanText(summaryElementMatch.inner)
        firstParagraphMatch == Element(html, LAMBDA t : IsOpen(t, "p"),
                                             LAMBDA t : IsClose(t, "p"))
        firstPara == cleanText(firstParagraphMatch.inner)
    IN  IF m1 # <<>> THEN m1
        ELSE IF m2 # <<>> THEN m2
        ELSE IF m3 # <<>> THEN m3
        ELSE IF el # <<>> THEN el
        ELSE IF firstParagraphMatch.inner # <<>> /\ SummaryFits(firstPara) THEN firstPara
        ELSE <<>>

Unknown == <<Wd("unknown", 1, 7)>>

extractLanguage(html) ==
    LET langMatch == FirstIdx(html, LAMBDA t : IsOpen(t, "html") /\ t.at = "lang"
                                               /\ t.txt # <<>>, 1)
    IN  IF langMatch # 0 THEN html[langMatch].txt ELSE Unknown

ArticleWords   == 500
ShortFormWords == 100

\* the thresholds compared with >= instead of >
determineContentType_AtLeast(wordCount) ==
    IF wordCount >= ArticleWords THEN "article"
    ELSE IF wordCount >= ShortFormWords THEN "short-form"
    ELSE "minimal"

determineContentType(wordCount) ==
    IF wordCount > ArticleWords THEN "article"
    ELSE IF wordCount > ShortFormWords THEN "short-form"
    ELSE "minimal"

-----------------------------------------------------------------------------
(* parse.ts: parseHtml                                                     *)

NoError == [present |-> FALSE, msg |-> ""]

ZeroData ==
    [title |-> <<>>, author |-> Null, publishDate |-> Null, summary |-> <<>>,
     content |-> <<>>, wordCount |-> 0, readingTime |-> 0, language |-> Unknown,
     contentType |-> "minimal"]

\* a failure literal that leaves the error field out
Failure_NoError(providedUrl, at, msg) ==
    [success |-> FALSE, extractedAt |-> at, sourceUrl |-> providedUrl,
     data |-> ZeroData, error |-> NoError]

\* the success=false object literal, written twice in parseHtml
Failure(providedUrl, at, msg) ==
    [success |-> FALSE, extractedAt |-> at, sourceUrl |-> providedUrl,
     data |-> ZeroData, error |-> [present |-> TRUE, msg |-> msg]]

WordsPerMinute == 200

\* Math.floor in place of Math.ceil
ReadingTime_Floor(wordCount) == wordCount \div WordsPerMinute

\* Math.ceil(wordCount / 200)
ReadingTime(wordCount) == (wordCount + WordsPerMinute - 1) \div WordsPerMinute

\* the precondition with a case-insensitive search for '<html'
NoValidHtml_IgnoreCase(h) ==
    h = <<>> \/ ~\E i \in 1..Len(h) : h[i].k = "open" /\ LowerName(h[i].nm) = "html"

\* !html || html.indexOf('<html') === -1   (indexOf is case-sensitive)
NoValidHtml(h) == h = <<>> \/ ~\E i \in 1..Len(h) : h[i].k = "open" /\ h[i].nm = "html"

\* the object literal of the success path, after the metrics are calculated
Success(at, sourceUrl, title, author, publishDate, summary, content, language) ==
    With(WordCount(content), LAMBDA wordCount :
         [success |-> TRUE, extractedAt |-> at, sourceUrl |-> sourceUrl,
          data |-> [title |-> title, author |-> author, publishDate |-> publishDate,
                    summary |-> summary, content |-> content, wordCount |-> wordCount,
                    readingTime |-> ReadingTime(wordCount), language |-> language,
                    contentType |-> determineContentType(wordCount)],
          error |-> NoError])

\* the body of the try block
TryBlock(h, providedUrl, at) ==
    IF NoValidHtml(h) THEN Ret(Failure(providedUrl, at, "No valid HTML content found"))
    ELSE With(extractAuthor(h), LAMBDA author :
         With(extractPublishDate(h), LAMBDA publishDate :
         With(extractMainContent(h), LAMBDA content :
             IF author.thrown THEN author
             ELSE IF publishDate.thrown THEN publishDate
             ELSE Ret(Success(at, extractSourceUrl(h, providedUrl), extractTitle(h),
                              author.v, publishDate.v, extractSummary(h), content,
                              extractLanguage(h))))))

\* parseHtml without its catch block: the throw reaches the caller
parseHtml_NoCatch(h, providedUrl, at) == TryBlock(h, providedUrl, at)

\* try { ... } catch (error) { ... }
parseHtml(h, providedUrl, at) ==
    With(TryBlock(h, providedUrl, at), LAMBDA t :
         IF t.thrown
         THEN Ret(Failure(providedUrl, at,
                          IF t.isError THEN t.msg ELSE "Unknown parsing error"))
         ELSE t)

AllExtractors ==
    <<"extractSourceUrl", "extractTitle", "extractAuthor", "extractPublishDate",
      "extractSummary", "extractMainContent", "extractLanguage">>

\* the extractor calls one parseHtml call makes, in order
ExtractorsRun(h) ==
    IF NoValidHtml(h) THEN <<>>
    ELSE IF extractAuthor(h).thrown THEN SubSeq(AllExtractors, 1, 3)
    ELSE IF extractPublishDate(h).thrown THEN SubSeq(AllExtractors, 1, 4)
    ELSE AllExtractors

\* a batch that drops the documents whose parse failed
batchParseHtml_DropFailed(documents, times) ==
    With([i \in 1..Len(documents) |->
            parseHtml(documents[i].html, documents[i].url, times[i]).v],
         LAMBDA all : Ret(SelectSeq(all, LAMBDA r : r.success)))

\* htmlDocuments.map(({ html, url }) => parseHtml(html, url)); times[i] is the
\* clock reading of the i-th call.  A call that throws ends map with the throw.
batchParseHtml(documents, times) ==
    With([i \in 1..Len(documents) |->
            parseHtml(documents[i].html, documents[i].url, times[i])],
         LAMBDA calls :
            IF \E i \in 1..Len(calls) : calls[i].thrown
            THEN calls[Min({i \in 1..Len(calls) : calls[i].thrown})]
            ELSE Ret([i \in 1..Len(calls) |-> calls[i].v]))

-----------------------------------------------------------------------------
(* parse.ts: validateParsedContent                                         *)

\* the truth value JavaScript gives a string | null field
Truthy(x) == x # <<>> /\ x # Null

\* the title test with >= in place of >
TitleTerm_AtLeast(p) ==
    IF Truthy(p.data.title)
    THEN IF HtmlLen(p.data.title) >= 10
         THEN [score |-> 30, issues |-> <<>>, suggestions |-> <<>>]
         ELSE [score |-> 0, issues |-> <<"Title too short">>,
               suggestions |-> <<"Check if title extraction is working correctly">>]
    ELSE [score |-> 0, issues |-> <<"No title found">>,
          suggestions |-> <<"Verify HTML structure and meta tags">>]

\* Title validation (30 points)
TitleTerm(p) ==
    IF Truthy(p.data.title)
    THEN IF HtmlLen(p.data.title) > 10
         THEN [score |-> 30, issues |-> <<>>, suggestions |-> <<>>]
         ELSE [score |-> 0, issues |-> <<"Title too short">>,
               suggestions |-> <<"Check if title extraction is working correctly">>]
    ELSE [score |-> 0, issues |-> <<"No title found">>,
          suggestions |-> <<"Verify HTML structure and meta tags">>]

\* the content checks pushing their issue without a suggestion
ContentTerm_NoSuggestion(p) ==
    IF Truthy(p.data.content)
    THEN IF p.data.wordCount > 100
         THEN [score |-> 40, issues |-> <<>>, suggestions |-> <<>>]
         ELSE IF p.data.wordCount > 20
         THEN [score |-> 20, issues |-> <<"Low content volume">>, suggestions |-> <<>>]
         ELSE [score |-> 0, issues |-> <<"Very little content extracted">>,
               suggestions |-> <<>>]
    ELSE [score |-> 0, issues |-> <<"No content found">>, suggestions |-> <<>>]

\* Content validation (40 points)
ContentTerm(p) ==
    IF Truthy(p.data.content)
    THEN IF p.data.wordCount > 100
         THEN [score |-> 40, issues |-> <<>>, suggestions |-> <<>>]
         ELSE IF p.data.wordCount > 20
         THEN [score |-> 20, issues |-> <<"Low content volume">>,
               suggestions |-> <<"Check if main content extraction is working">>]
         ELSE [score |-> 0, issues |-> <<"Very little content extracted">>,
               suggestions |-> <<"Verify content selectors and parsing logic">>]
    ELSE [score |-> 0, issues |-> <<"No content found">>,
          suggestions |-> <<"Check HTML structure and content selectors">>]

\* Metadata validation (20 points)
MetadataTerm(p) ==
    (IF Truthy(p.data.author) THEN 10 ELSE 0)
    + (IF Truthy(p.data.publishDate) THEN 5 ELSE 0)
    + (IF Truthy(p.data.summary) THEN 5 ELSE 0)

\* Structure validation (10 points)
StructureTerm(p) ==
    (IF Truthy(p.sourceUrl) THEN 5 ELSE 0)
    + (IF p.data.language # Unknown THEN 5 ELSE 0)

validateParsedContent(p) ==
    [score |-> TitleTerm(p).score + ContentTerm(p).score + MetadataTerm(p)
               + StructureTerm(p),
     issues |-> TitleTerm(p).issues \o ContentTerm(p).issues,
     suggestions |-> TitleTerm(p).suggestions \o ContentTerm(p).suggestions]

-----------------------------------------------------------------------------
(* summarize.js: summarize, the providers, HybridProvider                  *)
(*                                                                         *)
(* A text is a token sequence of word runs and whitespace.  A summary      *)
(* result is [summary, provider, model, tokensUsed, error]; tokensUsed 0   *)
(* and error.present FALSE stand for the fields being absent.              *)

NoInput   == [title |-> <<>>, summary |-> <<>>, content |-> <<>>]
NoSummary == [summary |-> <<>>, provider |-> "", model |-> "", tokensUsed |-> 0,
              error |-> NoError]

\* a || b on strings
Or(a, b) == IF a # <<>> THEN a ELSE b

\* providers, in the order summarize pushes them
Providers(e) ==
    (IF e.OPENAI_API_KEY THEN <<"openai">> ELSE <<>>)
    \o (IF e.ANTHROPIC_API_KEY THEN <<"anthropic">> ELSE <<>>)

\* process.env.OPENAI_MODEL || 'gpt-4o-mini' and its Anthropic counterpart,
\* with neither variable set
DefaultModel(name) ==
    IF name = "openai" THEN "gpt-4o-mini" ELSE "claude-3-5-sonnet-20241022"

\* `[${provider.name.toUpperCase()}]`
Tag(name) == IF name = "openai" THEN Wd("[OPENAI]", 1, 8) ELSE Wd("[ANTHROPIC]", 1, 11)

\* what the hosted API answers to one request: a text (possibly empty or
\* whitespace only), an answer without a text, or a rejection (with an Error
\* or with another value)
ApiResponses ==
    { [kind |-> "text",   text |-> <<Sp(1), Wd("ai", 3, 4), Sp(1)>>, tokens |-> 7, msg |-> ""],
      [kind |-> "text",   text |-> <<Sp(2)>>,                        tokens |-> 1, msg |-> ""],
      [kind |-> "text",   text |-> <<>>,                             tokens |-> 1, msg |-> ""],
      [kind |-> "none",   text |-> <<>>,                             tokens |-> 0, msg |-> ""],
      [kind |-> "reject", text |-> <<>>, tokens |-> 0, msg |-> "429 rate limited"],
      [kind |-> "rejectValue", text |-> <<>>, tokens |-> 0, msg |-> ""] }

NoSummaryGenerated == <<Wd("No", 1, 2), Sp(1), Wd("summary", 1, 7), Sp(1),
                        Wd("generated", 1, 9)>>

\* OpenAIProvider.summarize / AnthropicProvider.summarize: the whole body is
\* inside try, so the call always returns.  OpenAI: content || 'No summary
\* generated'; Anthropic: the text of a text block, else 'No summary generated'
ProviderSummarize(name, response) ==
    IF response.kind \in {"reject", "rejectValue"}
    THEN [summary |-> <<>>, provider |-> name, model |-> DefaultModel(name),
          tokensUsed |-> 0,
          error |-> [present |-> TRUE,
                     msg |-> IF response.kind = "reject" THEN response.msg
                             ELSE "Unknown error"]]
    ELSE [summary |-> Trim(IF response.kind = "none" THEN NoSummaryGenerated
                           ELSE IF name = "openai"
                           THEN Or(response.text, NoSummaryGenerated)
                           ELSE response.text),
          provider |-> name, model |-> DefaultModel(name),
          tokensUsed |-> response.tokens, error |-> NoError]

\* the result returned when providers.length === 0
NoProviders(input) ==
    [summary |-> Or(input.summary, Or(input.title,
                    <<Wd("No", 1, 2), Sp(1), Wd("content", 1, 7), Sp(1), Wd("to", 1, 2),
                      Sp(1), Wd("summarize", 1, 9)>>)),
     provider |-> "fallback", model |-> "none", tokensUsed |-> 0,
     error |-> [present |-> TRUE, msg |-> "No AI API keys configured"]]

RECURSIVE TakeWords(_, _, _)
\* content.split(/\s+/).slice(0, k).join(' ') on a text whose whitespace runs
\* are single tokens: a leading or trailing whitespace run yields an empty
\* piece, which counts among the k
TakeWords(text, k, atStart) ==
    IF text = <<>> \/ k = 0 THEN <<>>
    ELSE IF IsSpace(Head(text))
    THEN IF atStart
         THEN (IF k = 1 THEN <<>> ELSE <<Sp(1)>> \o TakeWords(Tail(text), k - 1, FALSE))
         ELSE <<Sp(1)>> \o TakeWords(Tail(text), k, FALSE)
    ELSE LET m == IF Head(text).n < k THEN Head(text).n ELSE k IN
         <<Wd(Head(text).nm, m, Head(text).l)>>
         \o (IF m < Head(text).n THEN <<>>
             ELSE IF k - m = 0 THEN <<>>
             ELSE TakeWords(Tail(text), k - m, FALSE))

FallbackWords == 50

Ellipsis == <<Wd("...", 1, 3)>>

\* HybridProvider.fallbackSummarization
fallbackSummarization(input) ==
    LET content == Or(input.content, Or(input.summary, input.title))
        words   == TakeWords(Collapse(content), FallbackWords, TRUE)
    IN  [summary |-> words \o (IF HtmlLen(content) > HtmlLen(words) THEN Ellipsis ELSE <<>>),
         provider |-> "hybrid", model |-> "fallback", tokensUsed |-> 0,
         error |-> [present |-> TRUE,
                    msg |-> "All AI providers failed, using basic text truncation"]]

\* the loop returning whatever the provider returned
Usable_AnyResult(r) == r.summary = r.summary

\* result.summary && !result.error
Usable(r) == r.summary # <<>> /\ ~r.error.present

\* { ...result, provider: this.name, summary: `[${NAME}] ${result.summary}` }
HybridResult(name, r) ==
    [r EXCEPT !.provider = "hybrid",
              !.summary = <<Tag(name), Sp(1)>> \o r.summary]

-----------------------------------------------------------------------------
(* The documents parseHtml is applied to                                   *)

El(nm, inner)          == <<Open(nm)>> \o inner \o <<Close(nm)>>
ElClass(nm, cs, inner) == <<OpenClass(nm, cs)>> \o inner \o <<Close(nm)>>
P(text)                == El("p", text)

\* texts around the 40-character paragraph threshold; D40 and D41 are cleaned
\* to 40 and 41 characters from longer raw text
T40 == <<Wd("t40", 1, 40)>>
T41 == <<Wd("t41", 1, 41)>>
D40 == <<Sp(2), Wd("d40", 1, 38), Sp(3), Wd("e", 1, 1), Nbsp>>
D41 == <<Wd("d41", 10, 3), Ent(5), Open("b"), Wd("e", 1, 1), Close("b"), Sp(1)>>
\* texts of 100, 101 and 400 one-letter words
W100 == <<Wd("w100", 100, 1)>>
W101 == <<Wd("w101", 101, 1)>>
W400 == <<Wd("w400", 400, 1)>>

EN == <<Wd("en", 1, 2)>>

HtmlDoc(blocks) == <<OpenAttr("html", "lang", EN)>> \o Concat(blocks) \o <<Close("html")>>

\* the number of blocks in a document
MaxBlocks == 2

DocsOf(Blocks) ==
    UNION { { HtmlDoc(bs) : bs \in [1..k -> Blocks] } : k \in 0..MaxBlocks }

ContentBlocks ==
    { P(T40), P(T41), P(D40), P(D41), P(W100), P(W101), P(W400),
      El("li", T41), El("h2", D41), El("blockquote", P(T41)),
      El("nav", P(T41)),
      El("article", <<Wd("x", 1, 5)>>),
      El("article", P(T41)),
      El("article", P(W100) \o P(T40)),
      El("main", P(W101) \o P(D41)),
      ElClass("div", C_entrycontent, P(W400) \o P(T41)),
      ElClass("section", C_wpblock, P(W100)),
      ElClass("div", C_content, P(W101)) }

PageTitle  == <<Wd("Page", 1, 12)>>
OgTitle    == <<Wd("Og", 1, 9), Sp(1), Wd("title", 1, 5)>>
OgTitleB   == <<Sp(2), Wd("OgB", 2, 4), Ent(4)>>
TwTitle    == <<Wd("Tw", 1, 7)>>
H1Title    == <<Wd("Head", 1, 8), Open("b"), Wd("line", 1, 4), Close("b")>>

TitleBlocks ==
    { <<Meta("og:title", "A", OgTitle)>>,
      <<Meta("og:title", "B", OgTitleB)>>,
      <<Meta("og:title", "A", <<Ent(5), Sp(1)>>)>>,
      <<Meta("og:title", "A", <<>>)>>,
      <<Meta("twitter:title", "A", TwTitle)>>,
      <<Meta("twitter:title", "B", <<Nbsp>>)>>,
      El("h1", H1Title),
      El("h1", <<>>),
      El("h1", <<Sp(1), Open("b"), Close("b")>>),
      El("title", PageTitle \o <<Sp(1), Sep("|"), Sp(1), Wd("Site", 1, 4)>>),
      El("title", <<Sep("-"), Sp(1), Wd("Site", 1, 4)>>),
      El("title", <<Wd("Well", 1, 4), Sep("-"), Wd("being", 1, 5), Sp(1), Sep("|"),
                    Sp(1), Wd("Site", 1, 4)>>),
      El("title", <<Wd("Well", 1, 4), Sep("-"), Wd("being", 1, 5), Sp(1), Sep("-"),
                    Sp(1), Wd("Site", 1, 4)>>),
      El("title", <<Wd("Part", 1, 4), Sp(1), Sep("-"), Sp(1), Wd("One", 1, 3), Sp(1),
                    Sep("|"), Sp(1), Wd("Site", 1, 4)>>),
      El("title", PageTitle) }

JsNull      == [t |-> "null", author |-> "absent", str |-> <<>>, date |-> <<>>]
JsMalformed == [t |-> "malformed", author |-> "absent", str |-> <<>>, date |-> <<>>]
JsNumber    == [t |-> "number", author |-> "absent", str |-> <<>>, date |-> <<>>]
JsAuthor    == [t |-> "object", author |-> "string",
                str |-> <<Sp(1), Wd("Ann", 1, 3), Sp(2), Wd("Lee", 1, 3)>>, date |-> <<>>]
JsNamed     == [t |-> "object", author |-> "named", str |-> <<Wd("Bob", 1, 3)>>,
                date |-> <<Wd("2024-01-02", 1, 10)>>]

LdScript(js) ==
    <<OpenAttr("script", "type", LdJson), Json(20, js), Close("script")>>

StructuredBlocks ==
    { LdScript(JsNull), LdScript(JsMalformed), LdScript(JsNumber),
      LdScript(JsAuthor), LdScript(JsNamed),
      <<Meta("author", "A", <<Wd("Cy", 1, 2)>>)>>,
      <<Meta("date", "A", <<Wd("2023-05-06", 1, 10)>>)>>,
      <<OpenAttr("time", "datetime", <<Wd("2022-03-04", 1, 10)>>), Close("time")>>,
      ElClass("span", C_byline, <<Wd("Di", 1, 2)>>),
      P(T41) }

OgUrl    == <<Wd("https://example.com/og", 1, 22)>>
CanonUrl == <<Wd("https://example.com/canonical", 1, 29)>>

\* og:url meta tags and canonical links, in both attribute orders
UrlBlocks ==
    { <<Meta("og:url", "A", OgUrl)>>,
      <<Meta("og:url", "B", <<Sp(1)>> \o OgUrl)>>,
      <<Meta("og:url", "A", <<>>)>>,
      <<Link("canonical", "A", CanonUrl)>>,
      <<Link("canonical", "B", CanonUrl)>>,
      <<Link("canonical", "A", <<>>)>>,
      <<Link("stylesheet", "A", <<Wd("/site.css", 1, 9)>>)>>,
      P(T41) }

\* texts around the 50 and 300 character limits of the summary paragraph;
\* D51 is cleaned to 51 characters from longer raw text
T50  == <<Wd("t50", 1, 50)>>
T51  == <<Wd("t51", 1, 51)>>
D51  == <<Sp(1), Wd("d51", 1, 49), Ent(6), Open("i"), Wd("f", 1, 1), Close("i"), Sp(2)>>
T299 == <<Wd("t299", 1, 299)>>
T300 == <<Wd("t300", 1, 300)>>

\* description meta tags, summary elements and paragraphs
SummaryBlocks ==
    { <<Meta("description", "A", <<Wd("Desc", 1, 20), Sp(2)>>)>>,
      <<Meta("og:description", "B", <<Wd("OgDesc", 1, 22)>>)>>,
      <<Meta("twitter:description", "A", <<>>)>>,
      ElClass("div", C_lead, <<Wd("Lead", 1, 30), Nbsp>>),
      ElClass("div", C_summary, <<Sp(1)>>),
      P(T41), P(T50), P(T51), P(D51), P(T299), P(T300) }

JsNoName == [t |-> "object", author |-> "named", str |-> <<>>, date |-> <<>>]

\* <a rel="author">text</a>
RelAuthor(text) ==
    <<Tok("open", "a", "rel", C_author, 0, 0, <<>>, NoJs)>> \o text \o <<Close("a")>>

\* the sources of the author chain; the class elements hold 99 and 100
\* characters after cleaning
AuthorBlocks ==
    { <<Meta("author", "A", <<>>)>>,
      <<Meta("article:author", "A", <<Wd("Art", 1, 3)>>)>>,
      <<Meta("twitter:creator", "B", <<Wd("@tw", 1, 3)>>)>>,
      RelAuthor(<<Sp(1), Wd("Eve", 1, 3)>>),
      RelAuthor(<<Nbsp>>),
      LdScript(JsAuthor), LdScript(JsNoName), LdScript(JsNamed), LdScript(JsNull),
      ElClass("span", C_writer, <<Wd("a99", 1, 97), Ent(5), Wd("x", 1, 1), Sp(2)>>),
      ElClass("div", C_author, <<Wd("a100", 1, 100)>>),
      ElClass("span", C_byline, <<Sp(1)>>) }

\* documents the precondition check is about
EdgeDocs ==
    { <<>>,
      P(T41),
      <<Open("HTML")>> \o P(T41) \o <<Close("HTML")>>,
      <<Open("html")>>,
      <<Open("html")>> \o P(T41) \o <<Close("html")>>,
      <<Open("HTML"), Open("html")>> \o P(W101) \o <<Close("html")>>,
      <<Meta("og:title", "A", OgTitle)>> \o El("article", P(T41)) \o LdScript(JsNull) }

Docs == DocsOf(ContentBlocks) \cup DocsOf(TitleBlocks) \cup DocsOf(StructuredBlocks)
        \cup DocsOf(UrlBlocks) \cup DocsOf(SummaryBlocks) \cup DocsOf(AuthorBlocks)
        \cup EdgeDocs

ProvidedUrl == <<Wd("https://example.com/a", 1, 21)>>
Urls2 == {<<>>, ProvidedUrl}

-----------------------------------------------------------------------------
(* The state machines                                                      *)

\* the largest clock reading during a batch
MaxClock == 1

NoResult ==
    [success |-> FALSE, extractedAt |-> 0, sourceUrl |-> <<>>, data |-> ZeroData,
     error |-> NoError]

NoValidation == [score |-> -1, issues |-> <<>>, suggestions |-> <<>>]

ClassifyIdle == u = <<>> /\ linkType = "none" /\ edgeType = "none"
ParseIdle    == inHtml = <<>> /\ inUrl = <<>> /\ result = NoResult /\ ran = <<>>
BatchIdle    == htmlDocuments = <<>> /\ results = <<>>
ValidateIdle == parsedContent = NoResult /\ validation = NoValidation
CallsIdle    == history = <<>>

\* null in the accessToken field
NoToken == 0

GmailIdle ==
    /\ accessToken = NoToken
    /\ tokenExpiresAt = 0
    /\ lastRequestTime = 0
    /\ reqs = <<>>
    /\ trace = <<>>
    /\ authLog = <<>>

NotExtracted == [done |-> FALSE, urls |-> <<>>]

UrlsIdle == email = [body |-> <<>>] /\ extracted = NotExtracted
SummarizeIdle ==
    /\ env = [OPENAI_API_KEY |-> FALSE, ANTHROPIC_API_KEY |-> FALSE]
    /\ sInput = NoInput
    /\ sPc = "idle"
    /\ sCalls = <<>>
    /\ sResult = NoSummary

Init ==
    /\ GmailIdle /\ UrlsIdle
    /\ inHtml \in Docs
    /\ inUrl \in Urls2
    /\ now = 0
    /\ outcome = "none"
    /\ result = NoResult
    /\ ran = <<>>
    /\ ClassifyIdle
    /\ BatchIdle
    /\ ValidateIdle
    /\ SummarizeIdle
    /\ CallsIdle

\* one call parseHtml(inHtml, inUrl); it reads the clock once
ParseHtml ==
    /\ outcome = "none"
    /\ \E call \in {parseHtml(inHtml, inUrl, now)} :
       /\ outcome' = IF call.thrown THEN "raised" ELSE "returned"
       /\ result' = IF call.thrown THEN result ELSE call.v
    /\ ran' = ExtractorsRun(inHtml)
    /\ UNCHANGED <<inHtml, inUrl, now, cvars, htmlDocuments, results, vvars, svars, hvars, gvars, evars>>

Next == ParseHtml

Spec == Init /\ [][Next]_vars

\* the documents batchParseHtml is applied to
BatchDocs ==
    { <<>>,
      <<Open("html")>>,
      <<Open("HTML")>> \o P(T41) \o <<Close("HTML")>>,
      HtmlDoc(<<P(T41)>>),
      HtmlDoc(<<LdScript(JsNull)>>) }

\* the length of the batch
MaxBatch == 2

Batches ==
    UNION { [1..k -> [html : BatchDocs, url : Urls2]] : k \in 0..MaxBatch }

InitBatch ==
    /\ GmailIdle /\ UrlsIdle
    /\ htmlDocuments \in Batches
    /\ results = <<>>
    /\ now = 0
    /\ outcome = "none"
    /\ ParseIdle
    /\ ClassifyIdle
    /\ ValidateIdle
    /\ SummarizeIdle
    /\ CallsIdle

\* one call batchParseHtml(htmlDocuments); the clock may advance between the
\* parseHtml calls it makes
BatchParseHtml ==
    /\ outcome = "none"
    /\ \E times \in [1..Len(htmlDocuments) -> now..MaxClock] :
          /\ \A i, j \in 1..Len(htmlDocuments) : i < j => times[i] <= times[j]
          /\ \E call \in {batchParseHtml(htmlDocuments, times)} :
             /\ outcome' = IF call.thrown THEN "raised" ELSE "returned"
             /\ results' = IF call.thrown THEN results ELSE call.v
          /\ now' = IF htmlDocuments = <<>> THEN now ELSE times[Len(htmlDocuments)]
    /\ UNCHANGED <<htmlDocuments, inHtml, inUrl, result, ran, cvars, vvars, svars, hvars, gvars, evars>>

NextBatch == BatchParseHtml

SpecBatch == InitBatch /\ [][NextBatch]_vars

\* the documents a caller parses one after another
RepeatDocs ==
    { <<>>,
      HtmlDoc(<<P(T41)>>),
      HtmlDoc(<<LdScript(JsNamed)>> \o <<P(W101)>>),
      HtmlDoc(<<LdScript(JsNull)>>) }

\* the number of calls the caller makes
MaxCalls == 3

InitRepeat ==
    /\ GmailIdle /\ UrlsIdle
    /\ history = <<>>
    /\ now = 0
    /\ outcome = "none"
    /\ ParseIdle /\ BatchIdle /\ ClassifyIdle /\ ValidateIdle /\ SummarizeIdle

\* one more call parseHtml(h, url), made when the clock reads t
ParseAgain ==
    /\ Len(history) < MaxCalls
    /\ outcome # "raised"
    /\ \E h \in RepeatDocs, url \in Urls2, t \in now..MaxClock :
       \E call \in {parseHtml(h, url, t)} :
          /\ now' = t
          /\ outcome' = IF call.thrown THEN "raised" ELSE "returned"
          /\ history' = IF call.thrown THEN history
                      ELSE Append(history, [html |-> h, url |-> url, result |-> call.v])
    /\ UNCHANGED <<inHtml, inUrl, result, ran, cvars, bvars, vvars, svars, gvars, evars>>

NextRepeat == ParseAgain

SpecRepeat == InitRepeat /\ [][NextRepeat]_vars

\* the ParsedContent values validateParsedContent is applied to: results as
\* parseHtml builds them, with titles of 0, 10, 11 and 15 characters and
\* contents of 0, 20, 21, 100, 101 and 150 words
ValidateTitles ==
    { <<>>, <<Wd("t10", 1, 10)>>, <<Wd("t11", 1, 11)>>, <<Wd("t", 2, 7)>> }

ValidateContents ==
    { <<>>, <<Wd("c20", 20, 2)>>, <<Wd("c21", 21, 2)>>, W100, W101,
      <<Wd("c150", 150, 1)>> }

ValidateInputs ==
    { Success(0, url, title, author, publishDate, summary, content, language) :
        url \in Urls2, title \in ValidateTitles,
        author \in {Null, <<Wd("Cy", 1, 2)>>},
        publishDate \in {Null, <<Wd("2023-05-06", 1, 10)>>},
        summary \in {<<>>, T41}, content \in ValidateContents,
        language \in {Unknown, EN} }
    \cup { Failure(url, 0, "No valid HTML content found") : url \in Urls2 }

InitValidate ==
    /\ GmailIdle /\ UrlsIdle
    /\ parsedContent \in ValidateInputs
    /\ validation = NoValidation
    /\ ParseIdle /\ BatchIdle /\ ClassifyIdle /\ now = 0 /\ outcome = "none"
    /\ SummarizeIdle
    /\ CallsIdle

\* one call validateParsedContent(parsedContent)
Validate ==
    /\ validation = NoValidation
    /\ validation' = validateParsedContent(parsedContent)
    /\ UNCHANGED <<parsedContent, cvars, pvars, bvars, svars, hvars, gvars, evars>>

NextValidate == Validate

SpecValidate == InitValidate /\ [][NextValidate]_vars

\* the inputs summarize is applied to: the title, summary and content of a
\* parsed page, each possibly empty; contents of 3, 50, 51 and 400 words and
\* one of two paragraphs
SummarizeInputs ==
    [ title   : {<<>>, PageTitle},
      summary : {<<>>, T41},
      content : { <<>>, <<Wd("c3", 3, 5)>>, <<Wd("c50", 50, 2)>>, <<Wd("c51", 51, 2)>>,
                  <<Wd("p1", 30, 3), Sp(2), Wd("p2", 30, 3)>>, W400 } ]

\* provider.summarize(input) has been called and its promise is pending
Call(name) == [provider |-> name, returned |-> FALSE, result |-> NoSummary]

InitSummarize ==
    /\ GmailIdle /\ UrlsIdle
    /\ env \in [OPENAI_API_KEY : BOOLEAN, ANTHROPIC_API_KEY : BOOLEAN]
    /\ sInput \in SummarizeInputs
    /\ sPc = "start"
    /\ sCalls = <<>>
    /\ sResult = NoSummary
    /\ ParseIdle /\ BatchIdle /\ ClassifyIdle /\ ValidateIdle /\ now = 0 /\ outcome = "none"
    /\ CallsIdle

\* summarize(sInput) up to its first await: with no provider it returns the
\* fallback literal, otherwise it calls the first provider
Summarize ==
    /\ sPc = "start"
    /\ IF Providers(env) = <<>>
       THEN /\ sResult' = NoProviders(sInput)
            /\ sPc' = "done"
            /\ sCalls' = sCalls
       ELSE /\ sCalls' = <<Call(Providers(env)[1])>>
            /\ sPc' = IF Len(Providers(env)) > 1 THEN "hybrid" ELSE "single"
            /\ sResult' = sResult
    /\ UNCHANGED <<env, sInput, cvars, pvars, bvars, vvars, hvars, gvars, evars>>

\* the only provider's promise settles: summarize returns its result as it is
SingleReturns ==
    /\ sPc = "single"
    /\ \E response \in ApiResponses :
       \E r \in {ProviderSummarize(sCalls[1].provider, response)} :
          /\ sCalls' = <<[sCalls[1] EXCEPT !.returned = TRUE, !.result = r]>>
          /\ sResult' = r
    /\ sPc' = "done"
    /\ UNCHANGED <<env, sInput, cvars, pvars, bvars, vvars, hvars, gvars, evars>>

\* HybridProvider.summarize: the pending provider's promise settles; the loop
\* returns its result if usable, else calls the next provider, else falls back
HybridReturns ==
    /\ sPc = "hybrid"
    /\ \E response \in ApiResponses :
       \E r \in {ProviderSummarize(sCalls[Len(sCalls)].provider, response)} :
       \E settled \in {[sCalls EXCEPT ![Len(sCalls)] =
                                        [@ EXCEPT !.returned = TRUE, !.result = r]]} :
          IF Usable(r)
          THEN /\ sResult' = HybridResult(sCalls[Len(sCalls)].provider, r)
               /\ sPc' = "done"
               /\ sCalls' = settled
          ELSE IF Len(sCalls) < Len(Providers(env))
          THEN /\ sCalls' = Append(settled, Call(Providers(env)[Len(sCalls) + 1]))
               /\ UNCHANGED <<sPc, sResult>>
          ELSE /\ sResult' = fallbackSummarization(sInput)
               /\ sPc' = "done"
               /\ sCalls' = settled
    /\ UNCHANGED <<env, sInput, cvars, pvars, bvars, vvars, hvars, gvars, evars>>

NextSummarize == Summarize \/ SingleReturns \/ HybridReturns

SpecSummarize == InitSummarize /\ [][NextSummarize]_vars

-----------------------------------------------------------------------------
(* classify.ts                                                             *)

LinkType == {"pdf", "x", "reddit", "job", "advertiser", "article"}

S_dotpdf      == <<".", "p", "d", "f">>
S_slashpdf    == <<"/", "p", "d", "f">>
S_xcom        == <<"x", ".", "c", "o", "m">>
S_twittercom  == <<"t", "w", "i", "t", "t", "e", "r", ".", "c", "o", "m">>
S_redditcom   == <<"r", "e", "d", "d", "i", "t", ".", "c", "o", "m">>
S_careers     == <<"c", "a", "r", "e", "e", "r", "s">>
S_jobs        == <<"j", "o", "b", "s">>
S_greenhouse  == <<"g", "r", "e", "e", "n", "h", "o", "u", "s", "e", ".", "i", "o">>
S_leverco     == <<"l", "e", "v", "e", "r", ".", "c", "o">>
S_ad          == <<"a", "d">>
S_ads         == <<"a", "d", "s">>
S_advertis    == <<"a", "d", "v", "e", "r", "t", "i", "s">>

\* the five tests of classify, on the lower-cased url
IsPdf(s)        == EndsWith(s, S_dotpdf) \/ Includes(s, S_slashpdf)
IsX(s)          == Includes(s, S_xcom) \/ Includes(s, S_twittercom)
IsReddit(s)     == Includes(s, S_redditcom)
IsJob(s)        == \/ Includes(s, S_careers) \/ Includes(s, S_jobs)
                   \/ Includes(s, S_greenhouse) \/ Includes(s, S_leverco)
\* the advertiser test matching only "ads" and "advertis"
IsAdvertiser_NoBareAd(s) == Includes(s, S_ads) \/ Includes(s, S_advertis)

\* /(ads?|advertis)/ : "ad" with an optional "s", or "advertis"
IsAdvertiser(s) == Includes(s, S_ad) \/ Includes(s, S_ads) \/ Includes(s, S_advertis)

classify(url) ==
    LET s == toLowerCase(url) IN
    IF IsPdf(s) THEN "pdf"
    ELSE IF IsX(s) THEN "x"
    ELSE IF IsReddit(s) THEN "reddit"
    ELSE IF IsJob(s) THEN "job"
    ELSE IF IsAdvertiser(s) THEN "advertiser"
    ELSE "article"

S_utm         == <<"u", "t", "m">>

\* an edge function that also tags links carrying a utm parameter as advertiser
classify_edge_Utm(url) ==
    LET s == toLowerCase(url) IN
    IF EndsWith(s, S_dotpdf) \/ Includes(s, S_slashpdf) THEN "pdf"
    ELSE IF Includes(s, S_xcom) \/ Includes(s, S_twittercom) THEN "x"
    ELSE IF Includes(s, S_redditcom) THEN "reddit"
    ELSE IF \/ Includes(s, S_careers) \/ Includes(s, S_jobs)
            \/ Includes(s, S_greenhouse) \/ Includes(s, S_leverco) THEN "job"
    ELSE IF \/ Includes(s, S_ad) \/ Includes(s, S_ads) \/ Includes(s, S_advertis)
            \/ Includes(s, S_utm) THEN "advertiser"
    ELSE "article"

\* classify of supabase/functions/debug_env/index.ts, the copy the edge
\* function carries
classify_edge(url) ==
    LET s == toLowerCase(url) IN
    IF EndsWith(s, S_dotpdf) \/ Includes(s, S_slashpdf) THEN "pdf"
    ELSE IF Includes(s, S_xcom) \/ Includes(s, S_twittercom) THEN "x"
    ELSE IF Includes(s, S_redditcom) THEN "reddit"
    ELSE IF \/ Includes(s, S_careers) \/ Includes(s, S_jobs)
            \/ Includes(s, S_greenhouse) \/ Includes(s, S_leverco) THEN "job"
    ELSE IF Includes(s, S_ad) \/ Includes(s, S_ads) \/ Includes(s, S_advertis)
         THEN "advertiser"
    ELSE "article"

\* The urls classify is applied to: up to MaxUrlParts fragments, concatenated.
MaxUrlParts == 3

UrlFragments ==
    { <<"h", ":", "/", "/">>,
      S_redditcom, S_xcom, S_twittercom,
      S_dotpdf, <<".", "P", "D", "F">>, S_slashpdf,
      <<"?", "u", "t", "m">>,
      S_jobs, S_leverco,
      S_ad, <<"/", "r", "e">>,
      <<"n", ".", "c", "o", "m">>,
      <<"/", "n", "e", "w", "s">> }

ClassifyUrls ==
    UNION { { Concat(parts) : parts \in [1..k -> UrlFragments] } : k \in 0..MaxUrlParts }

InitClassify ==
    /\ GmailIdle /\ UrlsIdle
    /\ u \in ClassifyUrls
    /\ linkType = "none"
    /\ edgeType = "none"
    /\ ParseIdle /\ BatchIdle /\ now = 0 /\ outcome = "none"
    /\ ValidateIdle
    /\ SummarizeIdle
    /\ CallsIdle

\* one call classify(u)
Classify ==
    /\ linkType = "none"
    /\ linkType' = classify(u)
    /\ UNCHANGED <<u, edgeType, inHtml, inUrl, now, outcome, result, ran, htmlDocuments, results, vvars,
                   svars, hvars, gvars, evars>>

\* the edge function classifies the same url
ClassifyEdge ==
    /\ edgeType = "none"
    /\ edgeType' = classify_edge(u)
    /\ UNCHANGED <<u, linkType, pvars, bvars, vvars, svars, hvars, gvars, evars>>

NextClassify == Classify \/ ClassifyEdge

SpecClassify == InitClassify /\ [][NextClassify]_vars

-----------------------------------------------------------------------------
(* summarize.js: GmailApiClient, authenticate and rateLimitedRequest       *)
(*                                                                         *)
(* Times are milliseconds as Date.now() gives them; timers fire when they   *)
(* are due and an answer arrives one of Latencies after its request.  The  *)
(* awaits are the only places where another call can run: each action is   *)
(* the code between two awaits.  A call of authenticate that finds a valid *)
(* cached token resolves without any I/O, so the request goes out at the   *)
(* same reading of the clock.                                              *)

minRequestInterval == 100

\* the number of concurrent rateLimitedRequest calls and the number of 429
\* answers the Gmail API gives
MaxRequests == 2
Max429      == 1

\* the times an answer can take to arrive
Latencies == {minRequestInterval \div 2}

\* the clock when the client is constructed: any reading of Date.now() is
\* far more than minRequestInterval after the epoch
StartTime == 10 * minRequestInterval

Requests == 1..MaxRequests

NoRequest == [pc |-> "idle", at |-> 0, until |-> 0, seen |-> <<NoToken, 0>>, status |-> 0]

\* the cache test that ignores the expiry
CacheValid_IgnoreExpiry(token, expiresAt, t) == token # NoToken

\* this.accessToken && Date.now() < this.tokenExpiresAt
CacheValid(token, expiresAt, t) == token # NoToken /\ t < expiresAt

\* Date.now() + (data.expires_in * 1000) - 60000
ExpiryOf(t, expires_in) == t + (expires_in * 1000) - 60000

\* the Retry-After header of a response: absent, or a number of seconds
NoHeader == -1

\* a retry that does not wait
RetryDelay_NoWait(header) == 0

\* parseInt(response.headers.get('Retry-After') || '60') * 1000
RetryDelay(header) == (IF header = NoHeader THEN 60 ELSE header) * 1000

\* what the token endpoint answers: a failure, a token good for an hour, a
\* token good for 61 seconds (one second after the buffer is taken off)
TokenAnswers ==
    { [ok |-> FALSE, expires_in |-> 0],
      [ok |-> TRUE,  expires_in |-> 3600],
      [ok |-> TRUE,  expires_in |-> 61] }

\* what the Gmail API answers
GmailAnswers ==
    { [status |-> 200, retryAfter |-> NoHeader],
      [status |-> 403, retryAfter |-> NoHeader],
      [status |-> 429, retryAfter |-> NoHeader],
      [status |-> 429, retryAfter |-> 1] }

Sends   == {i \in 1..Len(trace) : trace[i].kind = "send"}
Replies == {i \in 1..Len(trace) : trace[i].kind = "reply"}
Served429 == Cardinality({i \in Replies : trace[i].status = 429})
\* the tokens are numbered as the endpoint issues them
Issued == Cardinality({i \in 1..Len(authLog) : authLog[i].fetched /\ authLog[i].ok})

SendEvent(c, token) ==
    [kind |-> "send", req |-> c, at |-> now, token |-> token, status |-> 0,
     retryAfter |-> NoHeader]
ReplyEvent(c, answer) ==
    [kind |-> "reply", req |-> c, at |-> now, token |-> NoToken, status |-> answer.status,
     retryAfter |-> answer.retryAfter]

AuthEntry(c, at, seen, fetched, ok, expires_in, returned, stored) ==
    [req |-> c, at |-> at, cached |-> seen[1], expiresAt |-> seen[2], fetched |-> fetched,
     ok |-> ok, doneAt |-> now, expires_in |-> expires_in, returned |-> returned,
     stored |-> stored]

InitGmail ==
    /\ now = StartTime
    /\ accessToken = NoToken
    /\ tokenExpiresAt = 0
    /\ lastRequestTime = 0
    /\ reqs = [c \in Requests |-> NoRequest]
    /\ trace = <<>>
    /\ authLog = <<>>
    /\ outcome = "none"
    /\ ParseIdle /\ BatchIdle /\ ClassifyIdle /\ ValidateIdle /\ SummarizeIdle /\ CallsIdle
    /\ UrlsIdle

\* lines 303-313: this.lastRequestTime = Date.now(); await this.authenticate();
\* fetch(url, ...).  With a valid cached token the request is sent at once,
\* otherwise the token endpoint is called and the call waits for its answer.
Proceed(c) ==
    /\ lastRequestTime' = now
    /\ \E l \in Latencies :
       IF CacheValid(accessToken, tokenExpiresAt, now)
       THEN /\ reqs' = [reqs EXCEPT ![c].pc = "fetch", ![c].at = now, ![c].until = now + l]
            /\ trace' = Append(trace, SendEvent(c, accessToken))
            /\ authLog' = Append(authLog,
                   AuthEntry(c, now, <<accessToken, tokenExpiresAt>>, FALSE, TRUE, 0,
                             accessToken, <<accessToken, tokenExpiresAt>>))
       ELSE /\ reqs' = [reqs EXCEPT ![c].pc = "token", ![c].at = now, ![c].until = now + l,
                                    ![c].seen = <<accessToken, tokenExpiresAt>>]
            /\ UNCHANGED <<trace, authLog>>
    /\ UNCHANGED <<accessToken, tokenExpiresAt>>

\* lines 296-301: the interval test, and the timer when it is too early
Enter(c) ==
    \E timeSinceLastRequest \in {now - lastRequestTime} :
        IF timeSinceLastRequest < minRequestInterval
        THEN /\ reqs' = [reqs EXCEPT ![c].pc = "wait",
                            ![c].until = now + (minRequestInterval - timeSinceLastRequest)]
             /\ UNCHANGED <<lastRequestTime, accessToken, tokenExpiresAt, trace, authLog>>
        ELSE Proceed(c)

\* a caller calls rateLimitedRequest(url, options); the calls are numbered in
\* the order they are made
RateLimitedRequest(c) ==
    /\ reqs[c].pc = "idle"
    /\ \A b \in 1..(c - 1) : reqs[b].pc # "idle"
    /\ Enter(c)
    /\ UNCHANGED <<now, outcome, cvars, inHtml, inUrl, result, ran, bvars, vvars, svars, hvars,
                   evars>>

\* the setTimeout of line 300 fires
WaitOver(c) ==
    /\ reqs[c].pc = "wait"
    /\ now >= reqs[c].until
    /\ Proceed(c)
    /\ UNCHANGED <<now, outcome, cvars, inHtml, inUrl, result, ran, bvars, vvars, svars, hvars,
                   evars>>

\* lines 269-288 and 306: the token endpoint answers; a failure throws out of
\* authenticate and rateLimitedRequest, a success is stored and the request
\* is sent with the new token
TokenAnswer(c) ==
    /\ reqs[c].pc = "token"
    /\ now >= reqs[c].until
    /\ \E data \in TokenAnswers :
          IF ~data.ok
          THEN /\ reqs' = [reqs EXCEPT ![c].pc = "threw"]
               /\ authLog' = Append(authLog,
                      AuthEntry(c, reqs[c].at, reqs[c].seen, TRUE, FALSE, 0, NoToken,
                                <<accessToken, tokenExpiresAt>>))
               /\ UNCHANGED <<accessToken, tokenExpiresAt, trace>>
          ELSE \E access_token \in {Issued + 1}, l \in Latencies :
               /\ accessToken' = access_token
               /\ tokenExpiresAt' = ExpiryOf(now, data.expires_in)
               /\ authLog' = Append(authLog,
                      AuthEntry(c, reqs[c].at, reqs[c].seen, TRUE, TRUE, data.expires_in,
                                access_token,
                                <<access_token, ExpiryOf(now, data.expires_in)>>))
               /\ reqs' = [reqs EXCEPT ![c].pc = "fetch", ![c].at = now, ![c].until = now + l]
               /\ trace' = Append(trace, SendEvent(c, access_token))
    /\ UNCHANGED <<now, lastRequestTime, outcome, cvars, inHtml, inUrl, result, ran, bvars,
                   vvars, svars, hvars, evars>>

\* lines 314-321: the Gmail API answers; a 429 starts the Retry-After timer,
\* any other response is returned
GmailAnswer(c) ==
    /\ reqs[c].pc = "fetch"
    /\ now >= reqs[c].until
    /\ \E response \in GmailAnswers :
          /\ response.status = 429 => Served429 < Max429
          /\ trace' = Append(trace, ReplyEvent(c, response))
          /\ reqs' = IF response.status = 429
                     THEN [reqs EXCEPT ![c].pc = "backoff",
                                       ![c].until = now + RetryDelay(response.retryAfter)]
                     ELSE [reqs EXCEPT ![c].pc = "done", ![c].status = response.status]
    /\ UNCHANGED <<now, accessToken, tokenExpiresAt, lastRequestTime, authLog, outcome, cvars,
                   inHtml, inUrl, result, ran, bvars, vvars, svars, hvars, evars>>

\* line 318: the timer of line 317 fires, and rateLimitedRequest calls itself
RetryAfterOver(c) ==
    /\ reqs[c].pc = "backoff"
    /\ now >= reqs[c].until
    /\ Enter(c)
    /\ UNCHANGED <<now, outcome, cvars, inHtml, inUrl, result, ran, bvars, vvars, svars, hvars,
                   evars>>

\* the instants at which the timers fire and the awaited answers arrive
Due ==
    {reqs[c].until : c \in {r \in Requests : reqs[r].pc \in {"wait", "backoff", "token", "fetch"}}}

\* time passes, up to the next instant at which something is due; what is due
\* is handled first
Advance ==
    /\ Due # {}
    /\ \A d \in Due : d > now
    /\ now' = Min(Due)
    /\ UNCHANGED <<accessToken, tokenExpiresAt, lastRequestTime, reqs, trace, authLog, outcome,
                   cvars, inHtml, inUrl, result, ran, bvars, vvars, svars, hvars, evars>>

NextGmail ==
    \/ \E c \in Requests : RateLimitedRequest(c)
    \/ \E c \in Requests : WaitOver(c)
    \/ \E c \in Requests : TokenAnswer(c)
    \/ \E c \in Requests : GmailAnswer(c)
    \/ \E c \in Requests : RetryAfterOver(c)
    \/ Advance

SpecGmail == InitGmail /\ [][NextGmail]_vars

-----------------------------------------------------------------------------
(* summarize.js: GmailApiClient.extractUrlsFromEmail, shouldIncludeUrl,     *)
(* cleanUrl                                                                *)
(*                                                                         *)
(* The email body and the urls are sequences of characters.                *)

Lower == {"a", "b", "c", "d", "e", "f", "g", "h", "i", "j", "k", "l", "m", "n", "o", "p", "q", "r", "s", "t", "u", "v", "w", "x", "y", "z"}
Upper == {"A", "B", "C", "D", "E", "F", "G", "H", "I", "J", "K", "L", "M", "N", "O", "P", "Q", "R", "S", "T", "U", "V", "W", "X", "Y", "Z"}
Digit == {"0", "1", "2", "3", "4", "5", "6", "7", "8", "9"}
Alnum == Lower \cup Upper \cup Digit
\* \w of the regex, which decides where \b holds
WordChar == Alnum \cup {"_"}

\* the three character classes of urlRegex
\* [-a-zA-Z0-9@:%._\+~#=]
Class1 == Alnum \cup {"-", "@", ":", "%", ".", "_", "+", "~", "#", "="}
\* [a-zA-Z0-9()]
Class2 == Alnum \cup {"(", ")"}
\* [-a-zA-Z0-9()@:%_\+.~#?&=]
Class3 == Alnum \cup {"-", "(", ")", "@", ":", "%", "_", "+", ".", "~", "#", "?", "&", "="}

S_http             == <<"h", "t", "t", "p", ":", "/", "/">>
S_https            == <<"h", "t", "t", "p", "s", ":", "/", "/">>
S_unsubscribe      == <<"u", "n", "s", "u", "b", "s", "c", "r", "i", "b", "e">>
S_pixel            == <<"p", "i", "x", "e", "l">>
S_tracking         == <<"t", "r", "a", "c", "k", "i", "n", "g">>
S_analytics        == <<"a", "n", "a", "l", "y", "t", "i", "c", "s">>
S_facebooktr       == <<"f", "a", "c", "e", "b", "o", "o", "k", ".", "c", "o", "m", "/", "t", "r">>
S_googleanalytics  == <<"g", "o", "o", "g", "l", "e", "-", "a", "n", "a", "l", "y", "t", "i", "c", "s", ".", "c", "o", "m">>
S_doubleclick      == <<"d", "o", "u", "b", "l", "e", "c", "l", "i", "c", "k", ".", "n", "e", "t">>
S_amazonaws        == <<"a", "m", "a", "z", "o", "n", "a", "w", "s", ".", "c", "o", "m">>
S_cdn              == <<"c", "d", "n">>

\* (jpg|jpeg|png|gif|webp|svg|ico) with the dot before it
ImageExts == { <<".", "j", "p", "g">>,
               <<".", "j", "p", "e", "g">>,
               <<".", "p", "n", "g">>,
               <<".", "g", "i", "f">>,
               <<".", "w", "e", "b", "p">>,
               <<".", "s", "v", "g">>,
               <<".", "i", "c", "o">> }
\* (jpg|png|gif) with the dot before it
HostedExts == { <<".", "j", "p", "g">>, <<".", "p", "n", "g">>, <<".", "g", "i", "f">> }

paramsToRemove == { <<"g", "c", "l", "i", "d">>,
                    <<"f", "b", "c", "l", "i", "d">>,
                    <<"m", "s", "c", "l", "k", "i", "d">>,
                    <<"_", "g", "a">>,
                    <<"_", "g", "l">>,
                    <<"m", "c", "_", "c", "i", "d">>,
                    <<"m", "c", "_", "e", "i", "d">> }

\* String.prototype.indexOf, counted from 1, 0 when absent
IndexOf(s, c) ==
    LET at == {i \in 1..Len(s) : s[i] = c} IN IF at = {} THEN 0 ELSE Min(at)

\* https?:\/\/ at position i of the body, case-insensitive: the number of
\* characters it takes, 0 when it does not match there
SchemeLen(body, i) ==
    IF toLowerCase(SubSeq(body, i, Min({Len(body), i + 7}))) = S_https THEN 8
    ELSE IF toLowerCase(SubSeq(body, i, Min({Len(body), i + 6}))) = S_http THEN 7
    ELSE 0

\* the last position of the run of Class3 characters that starts at from
\* (from - 1 when the run is empty)
RunEnd(body, from) ==
    LET stops == {k \in from..Len(body) : body[k] \notin Class3} IN
    IF stops = {} THEN Len(body) ELSE Min(stops) - 1

\* (?:www\.)?[Class1]{1,256}\.[Class2]{1,6}\b(?:[Class3]*) against the run r
\* that follows the scheme.  Class1, Class2 and "." all lie in Class3 and the
\* last group is greedy, so every match takes the whole run; what has to
\* exist is a dot with Class1 characters before it, one to six Class2
\* characters after it, and a word boundary behind those.
HostMatches(r) ==
    \E j \in 2..Len(r), n \in 1..6 :
        /\ r[j] = "."
        /\ \A k \in 1..(j - 1) : r[k] \in Class1
        /\ j + n <= Len(r)
        /\ \A k \in (j + 1)..(j + n) : r[k] \in Class2
        /\ (r[j + n] \in WordChar) # (j + n < Len(r) /\ r[j + n + 1] \in WordChar)

RECURSIVE MatchFrom(_, _)
\* email.body.match(urlRegex) || [] : the matches from position i on, left to
\* right, each search starting where the last match ended; a match can only
\* start where the scheme stands
MatchFrom(body, i) ==
    With({k \in i..Len(body) : SchemeLen(body, k) > 0}, LAMBDA starts :
        IF starts = {} THEN <<>>
        ELSE With(Min(starts), LAMBDA k :
             With(RunEnd(body, k + SchemeLen(body, k)), LAMBDA e :
                IF HostMatches(SubSeq(body, k + SchemeLen(body, k), e))
                THEN <<SubSeq(body, k, e)>> \o MatchFrom(body, e + 1)
                ELSE MatchFrom(body, k + 1))))

\* pattern.test(url) for a.*\.(jpg|png|gif)
ThenExt(s, a, exts) ==
    \E i \in 1..(Len(s) - Len(a) + 1) :
        /\ SubSeq(s, i, i + Len(a) - 1) = a
        /\ \E e \in exts : Includes(SubSeq(s, i + Len(a), Len(s)), e)

\* shouldIncludeUrl: no exclude pattern matches; the patterns carry the i flag
shouldIncludeUrl(url) ==
    With(toLowerCase(url), LAMBDA s :
        ~ \/ Includes(s, S_unsubscribe)
          \/ \E e \in ImageExts : EndsWith(s, e) \/ Includes(s, e \o <<"?">>)
          \/ Includes(s, S_pixel) \/ Includes(s, S_tracking) \/ Includes(s, S_analytics)
          \/ Includes(s, S_facebooktr)
          \/ Includes(s, S_googleanalytics)
          \/ Includes(s, S_doubleclick)
          \/ ThenExt(s, S_amazonaws, HostedExts)
          \/ ThenExt(s, S_cdn, HostedExts))

RECURSIVE SplitOn(_, _)
\* String.prototype.split on one character
SplitOn(s, c) ==
    With(IndexOf(s, c), LAMBDA i :
        IF i = 0 THEN <<s>>
        ELSE <<SubSeq(s, 1, i - 1)>> \o SplitOn(SubSeq(s, i + 1, Len(s)), c))

RECURSIVE JoinPairs(_)
\* the application/x-www-form-urlencoded serializer: name=value joined by &
JoinPairs(pairs) ==
    IF pairs = <<>> THEN <<>>
    ELSE (IF IndexOf(Head(pairs), "=") = 0 THEN Head(pairs) \o <<"=">> ELSE Head(pairs))
         \o (IF Len(pairs) = 1 THEN <<>> ELSE <<"&">> \o JoinPairs(Tail(pairs)))

\* the name of a query pair: what stands before its first "="
PairName(pair) ==
    IF IndexOf(pair, "=") = 0 THEN pair ELSE SubSeq(pair, 1, IndexOf(pair, "=") - 1)

\* urlObj.searchParams.delete(param) for every param of paramsToRemove, on the
\* query string: the pairs are parsed (empty ones dropped), the named ones
\* removed and the list serialized again
DeleteParams(query) ==
    JoinPairs(SelectSeq(SplitOn(query, "&"),
                        LAMBDA pair : pair # <<>> /\ PairName(pair) \notin paramsToRemove))

\* cleanUrl: new URL(url), the deletes, hash = '', toString().  The parser
\* lower-cases scheme and host and gives an empty path the value "/"; a
\* string new URL rejects is returned as it is.  The characters of the
\* inputs need no percent-encoding.
cleanUrl(url) ==
    With(SchemeLen(url, 1), LAMBDA n :
    With(SubSeq(url, n + 1, Len(url)), LAMBDA rest :
    With(IF IndexOf(rest, "#") = 0 THEN rest
         ELSE SubSeq(rest, 1, IndexOf(rest, "#") - 1), LAMBDA noHash :
    With(IF IndexOf(noHash, "?") = 0 THEN noHash
         ELSE SubSeq(noHash, 1, IndexOf(noHash, "?") - 1), LAMBDA hostPath :
    With(IF IndexOf(noHash, "?") = 0 THEN <<>>
         ELSE SubSeq(noHash, IndexOf(noHash, "?") + 1, Len(noHash)), LAMBDA search :
    With(IF IndexOf(hostPath, "/") = 0 THEN hostPath
         ELSE SubSeq(hostPath, 1, IndexOf(hostPath, "/") - 1), LAMBDA host :
    With(IF IndexOf(hostPath, "/") = 0 THEN <<"/">>
         ELSE SubSeq(hostPath, IndexOf(hostPath, "/"), Len(hostPath)), LAMBDA pathname :
    With(DeleteParams(search), LAMBDA kept :
        IF n = 0 \/ host = <<>> THEN url
        ELSE toLowerCase(SubSeq(url, 1, n)) \o toLowerCase(host) \o pathname
             \o (IF kept = <<>> THEN <<>> ELSE <<"?">> \o kept)))))))))

RECURSIVE Unique(_)
\* [...new Set(urls)] : the first occurrence of every value, in order
Unique(urls) ==
    IF urls = <<>> THEN <<>>
    ELSE With(Unique(SubSeq(urls, 1, Len(urls) - 1)), LAMBDA before :
            IF \E i \in 1..Len(before) : before[i] = urls[Len(urls)]
            THEN before ELSE Append(before, urls[Len(urls)]))

RECURSIVE CleanIncluded(_)
\* the for loop of extractUrlsFromEmail over the matches
CleanIncluded(matches) ==
    IF matches = <<>> THEN <<>>
    ELSE (IF shouldIncludeUrl(Head(matches)) THEN <<cleanUrl(Head(matches))>> ELSE <<>>)
         \o CleanIncluded(Tail(matches))

\* extractUrlsFromEmail(email).urls
extractUrlsFromEmail(body) == Unique(CleanIncluded(MatchFrom(body, 1)))

\* a link with a path and a query
W_path     == <<"h", "t", "t", "p", "s", ":", "/", "/", "e", "x", "a", "m", "p", "l", "e", ".", "c", "o", "m", "/", "p", "a", "t", "h", "/", "t", "o", "?", "x", "=", "1">>
\* a tracking parameter and a fragment
W_tracked  == <<"h", "t", "t", "p", ":", "/", "/", "a", ".", "i", "o", "?", "g", "c", "l", "i", "d", "=", "1", "&", "b", "=", "2", "#", "f">>
\* an image name followed by a tracking parameter
W_image    == <<"h", "t", "t", "p", "s", ":", "/", "/", "a", ".", "c", "o", "m", "?", "x", "=", "a", ".", "p", "n", "g", "&", "g", "c", "l", "i", "d", "=", "1">>
\* an unsubscribe link
W_unsub    == <<"h", "t", "t", "p", "s", ":", "/", "/", "a", ".", "c", "o", "m", "/", "u", "n", "s", "u", "b", "s", "c", "r", "i", "b", "e">>
\* the host in upper case
W_upper    == <<"h", "t", "t", "p", "s", ":", "/", "/", "A", ".", "c", "o", "m">>
\* a bare host
W_plain    == <<"h", "t", "t", "p", "s", ":", "/", "/", "a", ".", "c", "o", "m">>
\* only a tracking parameter
W_fbclid   == <<"h", "t", "t", "p", "s", ":", "/", "/", "a", ".", "c", "o", "m", "?", "f", "b", "c", "l", "i", "d", "=", "1">>
\* a pixel link
W_pixel    == <<"h", "t", "t", "p", "s", ":", "/", "/", "a", ".", "c", "o", "m", "?", "x", "=", "p", "i", "x", "e", "l">>
\* an image name at the end
W_png      == <<"h", "t", "t", "p", "s", ":", "/", "/", "a", ".", "c", "o", "m", "?", "y", "=", "b", ".", "p", "n", "g">>
\* an excluded host
W_click    == <<"h", "t", "t", "p", "s", ":", "/", "/", "d", "o", "u", "b", "l", "e", "c", "l", "i", "c", "k", ".", "n", "e", "t">>
\* only a fragment
W_top      == <<"h", "t", "t", "p", "s", ":", "/", "/", "a", ".", "c", "o", "m", "#", "t", "o", "p">>
\* a word that is no link
W_text     == <<"r", "e", "a", "d">>
\* a host without a dot
W_nodot    == <<"h", "t", "t", "p", ":", "/", "/", "l", "o", "c", "a", "l", "h", "o", "s", "t">>

BodyWords == { W_path, W_tracked, W_image, W_unsub, W_upper, W_plain, W_fbclid, W_pixel, W_png, W_click, W_top, W_text, W_nodot }

\* the bodies extractUrlsFromEmail is applied to: up to MaxWords words with
\* single spaces between them
MaxWords == 2

RECURSIVE Spaced(_)
Spaced(ws) ==
    IF ws = <<>> THEN <<>>
    ELSE Head(ws) \o (IF Len(ws) = 1 THEN <<>> ELSE <<" ">> \o Spaced(Tail(ws)))

Bodies == UNION { { Spaced(ws) : ws \in [1..k -> BodyWords] } : k \in 0..MaxWords }

InitUrls ==
    /\ email \in {[body |-> b] : b \in Bodies}
    /\ extracted = NotExtracted
    /\ now = 0
    /\ outcome = "none"
    /\ ParseIdle /\ BatchIdle /\ ClassifyIdle /\ ValidateIdle /\ SummarizeIdle /\ CallsIdle
    /\ GmailIdle

\* one call extractUrlsFromEmail(email)
ExtractUrlsFromEmail ==
    /\ ~extracted.done
    /\ extracted' = [done |-> TRUE, urls |-> extractUrlsFromEmail(email.body)]
    /\ UNCHANGED <<email, cvars, pvars, bvars, vvars, svars, hvars, gvars>>

NextUrls == ExtractUrlsFromEmail

SpecUrls == InitUrls /\ [][NextUrls]_vars

-----------------------------------------------------------------------------
(* Claims                                                                  *)

Returned == outcome = "returned"

\* the message of the failure an extractor of this call raises, "" when none does
ExtractorFailure(h) ==
    IF NoValidHtml(h) THEN ""
    ELSE IF extractAuthor(h).thrown THEN extractAuthor(h).msg
    ELSE IF extractPublishDate(h).thrown THEN extractPublishDate(h).msg
    ELSE ""

\* C1: parseHtml never raises to its caller; every call returns a ParsedContent
\* whose success is true or false, and a failure inside an extractor becomes a
\* success=false result whose error is the failure's message.
C1_NeverRaises ==
    /\ outcome # "raised"
    /\ Returned =>
         /\ result.success \in BOOLEAN
         /\ ExtractorFailure(inHtml) # "" =>
              /\ result.success = FALSE
              /\ result.error = [present |-> TRUE, msg |-> ExtractorFailure(inHtml)]

\* an extractor has thrown (reading a property of a JSON-LD null) and the call returned
C1_Witness ==
    /\ Returned
    /\ ExtractorFailure(inHtml) # ""
    /\ result.success = FALSE

\* the document is empty or does not contain the substring '<html'
LacksHtmlTag(h) == \A i \in 1..Len(h) : ~(h[i].k = "open" /\ h[i].nm = "html")

\* C2: for html that is empty or lacks the substring '<html', parseHtml runs no
\* extractor and returns success=false, error 'No valid HTML content found' and
\* the zero value in every data field.
C2_PreconditionResult ==
    (Returned /\ LacksHtmlTag(inHtml)) =>
        /\ ran = <<>>
        /\ result.success = FALSE
        /\ result.error = [present |-> TRUE, msg |-> "No valid HTML content found"]
        /\ result.data.title = <<>>
        /\ result.data.author = Null
        /\ result.data.publishDate = Null
        /\ result.data.summary = <<>>
        /\ result.data.content = <<>>
        /\ result.data.wordCount = 0
        /\ result.data.readingTime = 0
        /\ result.data.language = Unknown
        /\ result.data.contentType = "minimal"

\* a non-empty document whose only html tag is written <HTML> was rejected
C2_Witness ==
    /\ Returned
    /\ inHtml # <<>>
    /\ \E i \in 1..Len(inHtml) : inHtml[i].k = "open" /\ inHtml[i].nm = "HTML"
    /\ LacksHtmlTag(inHtml)
    /\ result.success = FALSE

\* C3: in every returned result success=true holds exactly when error is absent,
\* and success=false implies zero-valued data fields and a non-empty error.
C3_SuccessErrorShape ==
    Returned =>
        /\ result.success <=> ~result.error.present
        /\ ~result.success =>
              /\ result.data = ZeroData
              /\ result.error.present
              /\ result.error.msg # ""

\* the caught-exception path: a document that passed the precondition failed
C3_Witness ==
    /\ Returned
    /\ ~LacksHtmlTag(inHtml)
    /\ ~result.success
    /\ result.error.present

Classified == linkType # "none"

C_S == toLowerCase(u)

\* C4: classify is total, the earliest matching rule in the order pdf, x,
\* reddit, job, advertiser decides, and a url containing both 'reddit.com' and
\* '.pdf' resolves to pdf.
C4_ClassifyPriority ==
    Classified =>
        /\ linkType \in LinkType
        /\ IsPdf(C_S) => linkType = "pdf"
        /\ (~IsPdf(C_S) /\ IsX(C_S)) => linkType = "x"
        /\ (~IsPdf(C_S) /\ ~IsX(C_S) /\ IsReddit(C_S)) => linkType = "reddit"
        /\ (Includes(C_S, S_redditcom) /\ Includes(C_S, S_dotpdf)) => linkType = "pdf"

\* group 2 of the two class regexes and group 1 of the two tag regexes: the
\* inner HTML of the container of kind w, <<>> when there is none
ContainerInner(h, w) ==
    CASE w = 1 -> Element(h, LAMBDA t : IsOpen(t, "article"),
                             LAMBDA t : IsClose(t, "article")).inner
      [] w = 2 -> Element(h, LAMBDA t : IsOpen(t, "main"),
                             LAMBDA t : IsClose(t, "main")).inner
      [] w = 3 -> Element(h, LAMBDA t : HasClass(t, NamedWrapperClasses), AnyClose).inner
      [] w = 4 -> Element(h, LAMBDA t : IsOpen(t, "div") /\ HasClass(t, DivWrapperClasses),
                             LAMBDA t : IsClose(t, "div")).inner

\* C5: when two or more of the four container kinds match with inner HTML of
\* different lengths, the content is collected from the inner HTML of the
\* longest one, whichever kind it is.
C5_LongestContainerWins ==
    (Returned /\ result.success) =>
        LET h       == StripFrom(inHtml, 1)
            matched == {w \in 1..4 : ContainerInner(h, w) # <<>>}
        IN  \A w \in matched :
              ( /\ Cardinality(matched) >= 2
                /\ \A v \in matched \ {w} :
                      HtmlLen(ContainerInner(h, v)) < HtmlLen(ContainerInner(h, w)) )
              => result.data.content = Join(ContentParts(ContainerInner(h, w)))

\* C6: for every successful parse wordCount counts the non-empty
\* whitespace-separated tokens of content, readingTime is the least integer r
\* with 200 * r >= wordCount, and wordCount = 0 gives readingTime = 0.
C6_ReadingTime ==
    (Returned /\ result.success) =>
        /\ result.data.wordCount = WordCount(result.data.content)
        /\ result.data.readingTime * 200 >= result.data.wordCount
        /\ (result.data.readingTime - 1) * 200 < result.data.wordCount
        /\ result.data.wordCount = 0 => result.data.readingTime = 0

\* 201 words were counted and the reading time is 2 minutes
C6_Witness ==
    /\ Returned /\ result.success
    /\ result.data.wordCount = 201
    /\ result.data.readingTime = 2

\* C7: contentType is 'article' iff wordCount > 500, 'short-form' iff
\* 100 < wordCount <= 500 and 'minimal' otherwise: 500 short-form, 501 article,
\* 100 minimal, 101 short-form.
C7_ContentTypeThresholds ==
    /\ Returned =>
         /\ result.data.contentType = "article" <=> result.data.wordCount > 500
         /\ result.data.contentType = "short-form" <=>
               (100 < result.data.wordCount /\ result.data.wordCount <= 500)
         /\ result.data.contentType = "minimal" <=> result.data.wordCount <= 100
    /\ determineContentType(500) = "short-form"
    /\ determineContentType(501) = "article"
    /\ determineContentType(100) = "minimal"
    /\ determineContentType(101) = "short-form"

\* a parse that counted exactly 500 words is short-form
C7_Witness ==
    /\ Returned /\ result.success
    /\ result.data.wordCount = 500
    /\ result.data.contentType = "short-form"

FirstNonEmpty(cands) ==
    LET S == {i \in 1..Len(cands) : cands[i] # <<>>} IN
    IF S = {} THEN <<>> ELSE cands[Min(S)]

MetaTokens(h, name) == {i \in 1..Len(h) : h[i].k = "meta" /\ h[i].nm = name}

\* the cleaned text of the first <h1> element, <<>> when there is none
FirstH1(h) ==
    cleanText(Element(h, LAMBDA t : IsOpen(t, "h1"), LAMBDA t : IsClose(t, "h1")).inner)

\* the <title> element's cleaned text without its site-name suffix
TitleTag(h) ==
    StripSiteName(cleanText(Element(h, LAMBDA t : IsOpen(t, "title"),
                                       LAMBDA t : IsClose(t, "title")).inner))

\* the document has one og:title meta, with a value that is not empty once
\* cleaned, and an <h1> with another text
OgTitleAndOtherH1(h) ==
    /\ Cardinality(MetaTokens(h, "og:title")) = 1
    /\ \A i \in MetaTokens(h, "og:title") : cleanText(h[i].txt) # <<>>
    /\ FirstH1(h) # <<>>
    /\ \A i \in MetaTokens(h, "og:title") : cleanText(h[i].txt) # FirstH1(h)

\* C8: the title is the first of og:title meta, twitter:title meta, first <h1>,
\* <title> that is non-empty after cleaning; with an og:title meta and a
\* different <h1> the title is the og:title value.
C8_TitlePriority ==
    (Returned /\ result.success) =>
        /\ result.data.title =
              FirstNonEmpty(<<extractMetaTag("og:title", inHtml),
                              extractMetaTag("twitter:title", inHtml),
                              FirstH1(inHtml), TitleTag(inHtml)>>)
        /\ OgTitleAndOtherH1(inHtml) =>
              \A i \in MetaTokens(inHtml, "og:title") :
                  result.data.title = cleanText(inHtml[i].txt)

\* a document with an og:title meta and a different <h1> was parsed
C8_Witness ==
    /\ Returned /\ result.success
    /\ OgTitleAndOtherH1(inHtml)
    /\ result.data.title # FirstH1(inHtml)

\* the cleaned fragments the paragraph regex finds in the content container
CleanedFragments(h) ==
    LET frags == ParaFrom(SelectBody(StripFrom(h, 1)), 1) IN
    [i \in 1..Len(frags) |-> cleanText(frags[i])]

\* C9: a fragment is kept exactly when its cleaned text is longer than 40
\* characters (40 excluded, 41 included); the kept fragments are in document
\* order, joined by a blank line.
C9_ParagraphFilter ==
    (Returned /\ result.success) =>
        LET frags == CleanedFragments(inHtml)
            kept  == SelectSeq(frags, LAMBDA f : HtmlLen(f) >= 41)
        IN  /\ result.data.content = Join(kept)
            /\ \A i \in 1..Len(frags) :
                  HtmlLen(frags[i]) = 40 => \A j \in 1..Len(kept) : kept[j] # frags[i]

\* a fragment of 40 characters was dropped and a later one of 41 was kept
C9_Witness ==
    /\ Returned /\ result.success
    /\ \E i, j \in 1..Len(CleanedFragments(inHtml)) :
          /\ i < j
          /\ HtmlLen(CleanedFragments(inHtml)[i]) = 40
          /\ HtmlLen(CleanedFragments(inHtml)[j]) = 41
          /\ result.data.content = CleanedFragments(inHtml)[j]

\* what parseHtml alone returns for the i-th document at the time of its call
Alone(i) ==
    parseHtml(htmlDocuments[i].html, htmlDocuments[i].url, results[i].extractedAt).v

\* the parse of the document fails: the precondition or a throwing extractor
ParseFails(h) == LacksHtmlTag(h) \/ ExtractorFailure(h) # ""

\* the opening and closing tags of some name do not pair up
Unbalanced(h) ==
    \E i \in 1..Len(h) :
        /\ h[i].k \in {"open", "close"}
        /\ Cardinality({j \in 1..Len(h) : h[j].k = "open" /\ h[j].nm = h[i].nm})
             # Cardinality({j \in 1..Len(h) : h[j].k = "close" /\ h[j].nm = h[i].nm})

\* C10 (as amended): batchParseHtml on N documents returns N results, the i-th
\* being what parseHtml returns for the i-th pair alone; a document whose parse
\* fails yields its own success=false result.
C10_BatchIndependent ==
    /\ outcome # "raised"
    /\ Returned =>
         /\ Len(results) = Len(htmlDocuments)
         /\ \A i \in 1..Len(results) :
               /\ results[i] = Alone(i)
               /\ ParseFails(htmlDocuments[i].html) => ~results[i].success

\* a failing document next to a good one: each has its own result
C10_Witness ==
    /\ Returned
    /\ Len(htmlDocuments) = 2
    /\ ParseFails(htmlDocuments[1].html)
    /\ ~results[1].success
    /\ results[2].success

\* C10 (as claimed): in addition a malformed document, one with unbalanced
\* tags, yields a success=false result.
C10_MalformedFails ==
    Returned =>
        /\ Len(results) = Len(htmlDocuments)
        /\ \A i \in 1..Len(results) :
              /\ results[i] = Alone(i)
              /\ (ParseFails(htmlDocuments[i].html) \/ Unbalanced(htmlDocuments[i].html))
                    => ~results[i].success

Validated == validation # NoValidation

\* the sum of the rubric terms, as the rubric words them
RubricScore(p) ==
    (IF HtmlLen(p.data.title) > 10 THEN 30 ELSE 0)
    + (IF p.data.wordCount > 100 THEN 40
       ELSE IF 20 < p.data.wordCount /\ p.data.wordCount <= 100 THEN 20 ELSE 0)
    + (IF p.data.author # Null THEN 10 ELSE 0)
    + (IF p.data.publishDate # Null THEN 5 ELSE 0)
    + (IF p.data.summary # <<>> THEN 5 ELSE 0)
    + (IF p.sourceUrl # <<>> THEN 5 ELSE 0)
    + (IF p.data.language # Unknown THEN 5 ELSE 0)

\* title length 15, wordCount 150, author set, no publishDate, no summary,
\* sourceUrl set, language 'en'
RubricExample(p) ==
    /\ HtmlLen(p.data.title) = 15
    /\ p.data.wordCount = 150
    /\ p.data.author # Null
    /\ p.data.publishDate = Null
    /\ p.data.summary = <<>>
    /\ p.sourceUrl # <<>>
    /\ p.data.language = EN

C12_AlwaysSucceeds ==
    (Returned /\ ~LacksHtmlTag(inHtml)) =>
        /\ result.success
        /\ result.data.author = extractAuthor(inHtml).v
        /\ result.data.publishDate = extractPublishDate(inHtml).v

\* the bodies of the application/ld+json script elements, in document order
LdBodies(h) ==
    LET opens == {i \in 1..Len(h) : IsLdScript(h[i])}
        nth(k) == CHOOSE i \in opens : Cardinality({x \in opens : x < i}) = k - 1
    IN  [k \in 1..Cardinality(opens) |->
           SubSeq(h, nth(k) + 1, FirstIdx(h, LAMBDA t : IsClose(t, "script"), nth(k) + 1) - 1)]

\* the values of the bodies that are valid JSON, in document order
ValidBlocks(h) ==
    LET each == [k \in 1..Len(LdBodies(h)) |-> JsonParse(LdBodies(h)[k])]
        ok   == SelectSeq(each, LAMBDA r : r.ok)
    IN  [k \in 1..Len(ok) |-> ok[k].v]

HasAuthor(b) == b.t = "object" /\ b.author \in {"string", "named"} /\ b.str # <<>>
HasDate(b)   == b.t = "object" /\ b.date # <<>>

\* no source the author chain tries before JSON-LD gives an author
NoEarlierAuthor(h) ==
    /\ \A nm \in {"author", "article:author", "twitter:creator"} : extractMetaTag(nm, h) = <<>>
    /\ ~\E i \in 1..Len(h) : h[i].k = "open" /\ h[i].at = "rel"

\* no source the date chain tries before JSON-LD gives a date
NoEarlierDate(h) ==
    /\ \A nm \in {"article:published_time", "pubdate", "date"} : extractMetaTag(nm, h) = <<>>
    /\ ~\E i \in 1..Len(h) : IsOpen(h[i], "time")

\* C13: extractJsonLD returns exactly the blocks that are valid JSON, in
\* document order, a malformed block being skipped without effect on the
\* others; a valid block after a malformed one is used by the author and date
\* fallbacks.
C13_JsonLDIndependent ==
    Returned =>
        /\ extractJsonLD(inHtml) = ValidBlocks(inHtml)
        /\ result.success =>
              LET blocks  == ValidBlocks(inHtml)
                  authors == SelectSeq(blocks, HasAuthor)
                  dates   == SelectSeq(blocks, HasDate)
              IN  /\ (NoEarlierAuthor(inHtml) /\ authors # <<>>)
                        => result.data.author = authors[1].str
                  /\ (NoEarlierDate(inHtml) /\ dates # <<>>)
                        => result.data.publishDate = dates[1].date

\* a malformed block comes first and the valid block after it gave the author
\* and the date
C13_Witness ==
    /\ Returned /\ result.success
    /\ Len(LdBodies(inHtml)) = 2
    /\ ~JsonParse(LdBodies(inHtml)[1]).ok
    /\ Len(ValidBlocks(inHtml)) = 1
    /\ result.data.author = ValidBlocks(inHtml)[1].str
    /\ result.data.publishDate = ValidBlocks(inHtml)[1].date
    /\ result.data.publishDate # <<>>

\* the href of the first <link rel="canonical"> that has one, <<>> when none
CanonicalHref(h) ==
    LET i == FirstIdx(h, LAMBDA t : t.k = "link" /\ t.nm = "canonical" /\ t.txt # <<>>, 1)
    IN  IF i = 0 THEN <<>> ELSE h[i].txt

\* C14: the sourceUrl of a successful parse is the caller-provided url when
\* one is given and non-empty; otherwise the og:url meta value; otherwise the
\* href of <link rel="canonical">; otherwise the empty string.
C14_SourceUrlPriority ==
    (Returned /\ result.success) =>
        result.sourceUrl =
            FirstNonEmpty(<<inUrl, extractMetaTag("og:url", inHtml), CanonicalHref(inHtml)>>)

\* a result without its timestamp
Timeless(r) == [r EXCEPT !.extractedAt = 0]

BothKeys == env.OPENAI_API_KEY /\ env.ANTHROPIC_API_KEY
NoKeys   == ~env.OPENAI_API_KEY /\ ~env.ANTHROPIC_API_KEY

SummarizeDone == sPc = "done"

\* the provider threw, or returned an empty summary or an error
ProviderFailed(c) == c.returned /\ (c.result.summary = <<>> \/ c.result.error.present)

RECURSIVE WordsOf(_)
\* the words of a text, each named by its run and its place in the run
WordsOf(text) ==
    IF text = <<>> THEN <<>>
    ELSE (IF Head(text).k = "w"
          THEN [i \in 1..Head(text).n |-> <<Head(text).nm, i>>] ELSE <<>>)
         \o WordsOf(Tail(text))

FirstOf(ws, k) == SubSeq(ws, 1, IF Len(ws) < k THEN Len(ws) ELSE k)

WithoutEllipsis(text) ==
    IF text # <<>> /\ text[Len(text)] = Ellipsis[1] THEN SubSeq(text, 1, Len(text) - 1)
    ELSE text

\* the text the truncation works on: content, else summary, else title
FallbackSource(input) ==
    IF input.content # <<>> THEN input.content
    ELSE IF input.summary # <<>> THEN input.summary
    ELSE input.title

C17_NoKeyFallback ==
    (NoKeys /\ SummarizeDone) =>
        /\ sCalls = <<>>
        /\ sResult.provider = "fallback"
        /\ sResult.model = "none"
        /\ sResult.error = [present |-> TRUE, msg |-> "No AI API keys configured"]
        /\ (sInput.content # <<>>) =>
              WordsOf(WithoutEllipsis(sResult.summary))
                 = FirstOf(WordsOf(sInput.content), 50)

\* C18: when the HTML has no <article> and no <main> element but has an
\* element whose class contains one of the wrapper class names (or a div whose
\* class contains content, post or article), the content is built from the
\* p/li/h1-h6/blockquote fragments inside that element.
C18_ClassContainer ==
    (Returned /\ result.success) =>
        LET h       == StripFrom(inHtml, 1)
            matched == {w \in {3, 4} : ContainerInner(h, w) # <<>>}
        IN  ( /\ ContainerInner(h, 1) = <<>>
              /\ ContainerInner(h, 2) = <<>>
              /\ matched # {} )
            => \E w \in matched :
                  result.data.content = Join(ContentParts(ContainerInner(h, w)))

\* a text without tags, entities, whitespace runs and outer whitespace
IsClean(text) ==
    /\ \A i \in 1..Len(text) :
          /\ ~IsTag(text[i])
          /\ text[i].k # "ent"
          /\ IsSpace(text[i]) => /\ text[i].n = 1
                                 /\ i > 1 /\ i < Len(text)
                                 /\ ~IsSpace(text[i - 1])

\* C19: every non-empty title, author or summary of a successful parse, from
\* whichever fallback source it came, contains no HTML tag, no entity, no run
\* of two or more whitespace characters and no leading or trailing whitespace.
C19_CleanFields ==
    (Returned /\ result.success) =>
        /\ IsClean(result.data.title)
        /\ result.data.author # Null => IsClean(result.data.author)
        /\ IsClean(result.data.summary)

RECURSIVE PFrom(_, _)
\* the cleaned texts of the <p> elements, in document order
PFrom(h, from) ==
    LET i == FirstIdx(h, LAMBDA t : IsOpen(t, "p"), from)
        j == IF i = 0 THEN 0 ELSE FirstIdx(h, LAMBDA t : IsClose(t, "p"), i + 1)
    IN  IF j = 0 THEN <<>>
        ELSE <<cleanText(SubSeq(h, i + 1, j - 1))>> \o PFrom(h, j + 1)

\* strictly between 50 and 300 characters
FitsSummary(text) == 50 < HtmlLen(text) /\ HtmlLen(text) < 300

\* no description meta tag and no summary element yields a summary
NoSummarySource(h) ==
    /\ \A nm \in {"description", "og:description", "twitter:description"} :
          extractMetaTag(nm, h) = <<>>
    /\ cleanText(Element(h, LAMBDA t : /\ t.k = "open" /\ t.at \in {"id", "class"}
                                       /\ \E a \in SummaryNames : StartsWith(t.av, a),
                         AnyClose).inner) = <<>>

\* C20 (as amended): when no description meta tag and no summary element
\* yields a summary, the summary is the cleaned text of the first <p> of the
\* document if its length is strictly between 50 and 300 characters, and the
\* empty string otherwise, whatever the later paragraphs are.
C20_FirstParagraphOnly ==
    (Returned /\ result.success /\ NoSummarySource(inHtml)) =>
        LET ps == PFrom(inHtml, 1) IN
        result.data.summary =
            IF ps # <<>> /\ FitsSummary(ps[1]) THEN ps[1] ELSE <<>>

\* the first <p> is too short, a later one has a fitting length, and the
\* summary is empty
C20_Witness ==
    /\ Returned /\ result.success /\ NoSummarySource(inHtml)
    /\ Len(PFrom(inHtml, 1)) = 2
    /\ HtmlLen(PFrom(inHtml, 1)[1]) = 50
    /\ FitsSummary(PFrom(inHtml, 1)[2])
    /\ result.data.summary = <<>>

\* C20 (as claimed): the summary is the cleaned text of the first <p> whose
\* cleaned length is strictly between 50 and 300 characters, and it is empty
\* only when no <p> has such a length.
C20_FirstFittingParagraph ==
    (Returned /\ result.success /\ NoSummarySource(inHtml)) =>
        LET fitting == SelectSeq(PFrom(inHtml, 1), FitsSummary) IN
        result.data.summary = IF fitting # <<>> THEN fitting[1] ELSE <<>>

\* the title without its last separator and the text after it
WithoutLastSuffix(title) ==
    LET seps == {i \in 1..(Len(title) - 1) : title[i].k = "sep"} IN
    IF seps = {} THEN title ELSE Trim(SubSeq(title, 1, Max(seps) - 1))

\* the title comes from the <title> tag: no meta title and no <h1> text
TitleFromTag(h) ==
    /\ extractMetaTag("og:title", h) = <<>>
    /\ extractMetaTag("twitter:title", h) = <<>>
    /\ FirstH1(h) = <<>>

\* C21: when the title comes from the <title> tag only the trailing site-name
\* suffix is removed, the last separator and the text after it; everything
\* before the last separator is kept, earlier separators and hyphenated words
\* included.
C21_TrailingSuffixOnly ==
    (Returned /\ result.success /\ TitleFromTag(inHtml)) =>
        result.data.title =
            WithoutLastSuffix(cleanText(Element(inHtml, LAMBDA t : IsOpen(t, "title"),
                                                LAMBDA t : IsClose(t, "title")).inner))

\* the candidates of the author chain, in the order the chain tries them
AuthorCandidates(h) ==
    LET authors == SelectSeq(ValidBlocks(h), HasAuthor)
        byClass == cleanText(Element(h, LAMBDA t : HasClass(t, AuthorClasses),
                                     AnyClose).inner)
    IN  << extractMetaTag("author", h),
           extractMetaTag("article:author", h),
           extractMetaTag("twitter:creator", h),
           cleanText(Element(h, LAMBDA t : t.k = "open" /\ t.at = "rel" /\ t.av = C_author,
                             AnyClose).inner),
           IF authors # <<>> THEN authors[1].str ELSE <<>>,
           IF HtmlLen(byClass) < 100 THEN byClass ELSE <<>> >>

\* the first non-empty candidate, null when there is none
ExpectedAuthor(h) ==
    IF FirstNonEmpty(AuthorCandidates(h)) = <<>> THEN Null
    ELSE FirstNonEmpty(AuthorCandidates(h))

\* C22: author extraction tries the meta tags author, article:author,
\* twitter:creator, then the rel="author" link text, then the first JSON-LD
\* block with an author (a string, or an object with a name), then the first
\* element whose class contains author, byline or writer; it returns the first
\* non-empty candidate, rejects a class candidate of 100 characters or more,
\* and returns null when every source fails.
C22_AuthorOrder ==
    (Returned /\ ~LacksHtmlTag(inHtml)) =>
        /\ ~extractAuthor(inHtml).thrown
        /\ extractAuthor(inHtml).v = ExpectedAuthor(inHtml)
        /\ result.success => result.data.author = ExpectedAuthor(inHtml)

\* the suggestion that belongs to an issue
SuggestionFor(issue) ==
    CASE issue = "Title too short" -> "Check if title extraction is working correctly"
      [] issue = "No title found" -> "Verify HTML structure and meta tags"
      [] issue = "Low content volume" -> "Check if main content extraction is working"
      [] issue = "Very little content extracted"
            -> "Verify content selectors and parsing logic"
      [] issue = "No content found" -> "Check HTML structure and content selectors"
      [] OTHER -> ""

TitleIssues   == {"Title too short", "No title found"}
ContentIssues == {"Low content volume", "Very little content extracted", "No content found"}

\* C23: validate appends issues and suggestions in pairs: the two lists have
\* the same length, the i-th suggestion belongs to the i-th issue, there is at
\* most one title issue followed by at most one content issue, and the
\* metadata and structure checks add neither.
C23_IssuesPaired ==
    Validated =>
        /\ Len(validation.issues) = Len(validation.suggestions)
        /\ \A i \in 1..Len(validation.issues) :
              validation.suggestions[i] = SuggestionFor(validation.issues[i])
        /\ \E t \in {<<>>} \cup {<<x>> : x \in TitleIssues},
               c \in {<<>>} \cup {<<x>> : x \in ContentIssues} :
              validation.issues = t \o c

\* a short title and a thin content gave two issues with their suggestions,
\* and the missing author, date, summary, url and language gave none
C23_Witness ==
    /\ Validated
    /\ validation.issues = <<"Title too short", "Low content volume">>
    /\ Len(validation.suggestions) = 2
    /\ parsedContent.data.author = Null
    /\ parsedContent.data.publishDate = Null
    /\ parsedContent.data.summary = <<>>
    /\ parsedContent.sourceUrl = <<>>
    /\ parsedContent.data.language = Unknown

C25_CopiesAgree ==
    (linkType # "none" /\ edgeType # "none") => linkType = edgeType

\* both copies tagged a utm link that matches no rule as an article
C25_Witness ==
    /\ linkType = "article"
    /\ edgeType = "article"
    /\ Includes(C_S, S_utm)

Extracted == extracted.done

\* the links of a body as a reader sees them: the words that start with
\* http:// or https://, each taken whole
BodyLinks(body) == SelectSeq(SplitOn(body, " "), LAMBDA w : SchemeLen(w, 1) > 0)

\* the links that pass the exclusion filter, each with its tracking
\* parameters and fragment removed, every value once
ExpectedUrls(body) == Unique(CleanIncluded(BodyLinks(body)))

\* C29: extractUrlsFromEmail returns every http(s) url of the email body that
\* passes the exclusion filter as the complete url that appears in the body,
\* with host, path and query kept, changed only by removing the listed
\* tracking parameters and the fragment.
C29_CompleteUrls ==
    Extracted => extracted.urls = ExpectedUrls(email.body)

\* the position of the first match of the body that gave a returned url
FirstSource(body, url) ==
    Min({i \in 1..Len(MatchFrom(body, 1)) :
            /\ shouldIncludeUrl(MatchFrom(body, 1)[i])
            /\ cleanUrl(MatchFrom(body, 1)[i]) = url})

\* C30: the urls list returned by extractUrlsFromEmail contains no
\* duplicates, keeps the order of first occurrence in the body, and contains
\* no url that matches an exclusion pattern, also after cleaning has removed
\* tracking parameters and the fragment.
C30_UniqueOrderedFiltered ==
    Extracted =>
        /\ \A i, j \in 1..Len(extracted.urls) :
              i < j => /\ extracted.urls[i] # extracted.urls[j]
                       /\ FirstSource(email.body, extracted.urls[i])
                            < FirstSource(email.body, extracted.urls[j])
        /\ \A i \in 1..Len(extracted.urls) : shouldIncludeUrl(extracted.urls[i])

\* C26: GmailApiClient rate limiting: between any two requests that
\* rateLimitedRequest sends to the Gmail API at least minRequestInterval
\* (100 ms) elapses, also when rateLimitedRequest is called again while an
\* earlier call is still waiting or in flight.
C26_MinInterval ==
    \A i, j \in Sends : i < j => trace[j].at - trace[i].at >= minRequestInterval

\* C27: authenticate returns the cached access token without calling the
\* token endpoint exactly while a token is cached and the current time is
\* before tokenExpiresAt (time of the last refresh + expires_in seconds -
\* 60 s); otherwise it requests a new token, stores it with its new expiry
\* and returns it, and a failed refresh throws instead of returning a stale
\* token.
C27_TokenCache ==
    /\ \A k \in 1..Len(authLog) :
          /\ ~authLog[k].fetched
                <=> (authLog[k].cached # NoToken /\ authLog[k].at < authLog[k].expiresAt)
          /\ ~authLog[k].fetched => authLog[k].returned = authLog[k].cached
          /\ (authLog[k].fetched /\ authLog[k].ok) =>
                /\ authLog[k].returned \notin {NoToken, authLog[k].cached}
                /\ authLog[k].stored
                     = <<authLog[k].returned,
                         authLog[k].doneAt + 1000 * authLog[k].expires_in - 60000>>
          /\ (authLog[k].fetched /\ ~authLog[k].ok) =>
                /\ authLog[k].returned = NoToken
                /\ reqs[authLog[k].req].pc = "threw"
    /\ \A k \in 1..Len(authLog) :
          (authLog[k].fetched /\ authLog[k].ok
             /\ \A m \in (k + 1)..Len(authLog) : ~(authLog[m].fetched /\ authLog[m].ok))
          => <<accessToken, tokenExpiresAt>> = authLog[k].stored

\* one call was served from the cache, and a later refresh of the expired
\* token failed and threw
C27_Witness ==
    \E k, m \in 1..Len(authLog) :
        /\ ~authLog[k].fetched
        /\ authLog[k].returned # NoToken
        /\ authLog[m].fetched /\ ~authLog[m].ok
        /\ authLog[m].cached # NoToken
        /\ authLog[m].at >= authLog[m].expiresAt
        /\ reqs[authLog[m].req].pc = "threw"

\* the seconds a 429 asks to wait: its Retry-After header, 60 without one
RetryAfterSeconds(reply) == IF reply.retryAfter = NoHeader THEN 60 ELSE reply.retryAfter

====
